---- MODULE Spec2Model ----
(***************************************************************************)
(* Sequence matchers of klondiff: KlondikeSequenceMatcher (klondikediff.py) *)
(* and PatienceSequenceMatcher_py (_piersdiff_py.py).                       *)
(*                                                                         *)
(* A line is a sequence of one-character strings.  Python lists are TLA+   *)
(* sequences; a Python index i is position i+1 of the sequence.  Every     *)
(* computation that can raise returns a record whose field err names the   *)
(* exception ("none" when it completes).                                    *)
(***************************************************************************)
EXTENDS Integers, Sequences, FiniteSets, TLC

VARIABLES cls, a, b, extra_effort, a_ws, b_ws, matching_blocks,
          nearly_matching_blocks, opcodes, mbRet, opRet,
          fn, arg, out,
          oldtext_hold, chunks, target, written

vars == <<cls, a, b, extra_effort, a_ws, b_ws, matching_blocks,
          nearly_matching_blocks, opcodes, mbRet, opRet, fn, arg, out,
          oldtext_hold, chunks, target, written>>

(***************************************************************************)
(* Bounds of the model.                                                    *)
(***************************************************************************)
MaxLenA == 4
MaxLenB == 2
LcsLen == 4
RemovalLen == 5
WideLenA == 5
WideLenB == 4
PatienceLen == 3
DiffLen == 4
RecurseLen == 3
NestLen == 12
ClearLen == 7
ConstructLen == 2
EffortLen == 2
CollapseLen == 5
ChangedLen == 3
SeqsLen == 2
WriteLen == 3

(***************************************************************************)
(* Python values.                                                          *)
(***************************************************************************)
None == [set |-> FALSE, val |-> <<>>]
Some(v) == [set |-> TRUE, val |-> v]

Min(x, y) == IF x <= y THEN x ELSE y
Max(x, y) == IF x >= y THEN x ELSE y

\* s[i] of a Python list: negative indices count from the end.
InRange(s, i) == -Len(s) <= i /\ i < Len(s)
PyGet(s, i) == IF i >= 0 THEN s[i + 1] ELSE s[Len(s) + i + 1]

\* s[lo:hi] of a Python list (hi = None is written as Len(s)).
PyClamp(s, i) == IF i < 0 THEN Max(Len(s) + i, 0) ELSE Min(i, Len(s))
PySlice(s, lo, hi) ==
  LET l == PyClamp(s, lo)
      h == PyClamp(s, hi)
  IN IF h <= l THEN <<>> ELSE SubSeq(s, l + 1, h)


(***************************************************************************)
(* Line normalisations.                                                    *)
(***************************************************************************)
Whitespace == {" ", "\t", "\r", "\n"}

\* number of consecutive copies of s[p] starting at position p (1-based)
RECURSIVE RunLen(_, _)
RunLen(s, p) ==
  IF p < Len(s) /\ s[p + 1] = s[p] THEN 1 + RunLen(s, p + 1) ELSE 1

\* length of the maximal whitespace run starting at position p
RECURSIVE WsRun(_, _)
WsRun(s, p) ==
  IF p <= Len(s) /\ s[p] \in Whitespace THEN 1 + WsRun(s, p + 1) ELSE 0

\* re.sub(r'(.)\1*(?=\1{2})|[ \t\r\n]*', '', s), scanning from position p:
\* the first alternative matches all but the last two characters of a run
\* of three or more copies of a character other than newline; the second
\* matches a (possibly empty) run of whitespace.
RECURSIVE ClearFrom(_, _)
ClearFrom(s, p) ==
  IF p > Len(s) THEN <<>>
  ELSE IF s[p] # "\n" /\ RunLen(s, p) >= 3 THEN ClearFrom(s, p + RunLen(s, p) - 2)
  ELSE IF s[p] \in Whitespace THEN ClearFrom(s, p + WsRun(s, p))
  ELSE <<s[p]>> \o ClearFrom(s, p + 1)

clear_junk(s) == ClearFrom(s, 1)

\* str.strip()
RECURSIVE LStrip(_)
LStrip(s) == IF s # <<>> /\ Head(s) \in Whitespace THEN LStrip(Tail(s)) ELSE s
RECURSIVE RStrip(_)
RStrip(s) ==
  IF s # <<>> /\ s[Len(s)] \in Whitespace THEN RStrip(SubSeq(s, 1, Len(s) - 1)) ELSE s
strip(s) == RStrip(LStrip(s))

(***************************************************************************)
(* unique_lcs_py: patience sorting over the lines unique on both sides.    *)
(* NoPos stands for Python's None in a table of positions.                 *)
(***************************************************************************)
NoPos == -1

Range(s) == {s[i] : i \in DOMAIN s}

\* duplicates kept: a line that occurs more than once keeps its last position
IndexOfLast(xa) ==
  [l \in Range(xa) |-> (CHOOSE i \in DOMAIN xa :
                          xa[i] = l /\ \A j \in DOMAIN xa : xa[j] = l => j <= i) - 1]

\* index[line] = position of line in xa, NoPos when the line is a duplicate
Index(xa) ==
  [l \in Range(xa) |->
     LET occ == {i \in DOMAIN xa : xa[i] = l}
     IN IF Cardinality(occ) > 1 THEN NoPos ELSE (CHOOSE i \in occ : TRUE) - 1]

\* the loop over b that fills btoa; st.deleted holds the lines removed from
\* index by "del index[line]", st.index2 the first position of a line in b
RECURSIVE BtoaLoop(_, _, _, _)
BtoaLoop(index, xb, pos, st) ==
  IF pos >= Len(xb) THEN st.btoa
  ELSE
    LET line == xb[pos + 1]
        next == IF line \in DOMAIN index /\ line \notin st.deleted
                THEN index[line] ELSE NoPos
    IN IF next = NoPos THEN BtoaLoop(index, xb, pos + 1, st)
       ELSE IF line \in DOMAIN st.index2
       THEN BtoaLoop(index, xb, pos + 1,
              [st EXCEPT !.btoa[st.index2[line] + 1] = NoPos,
                         !.deleted = @ \cup {line}])
       ELSE BtoaLoop(index, xb, pos + 1,
              [st EXCEPT !.btoa[pos + 1] = next,
                         !.index2 = (line :> pos) @@ @])

Btoa(xa, xb) ==
  BtoaLoop(Index(xa), xb, 0,
           [btoa |-> [i \in 1..Len(xb) |-> NoPos], index2 |-> <<>>, deleted |-> {}])

\* bisect.bisect(stacks, apos) on the increasing list stacks
bisect(stacks, apos) == Cardinality({i \in DOMAIN stacks : stacks[i] <= apos})

\* the bisection left out: a card that does not extend the last pile goes
\* onto the first one
PileForFirst(stacks, k, apos) ==
  IF stacks # <<>> /\ stacks[Len(stacks)] < apos THEN Len(stacks) ELSE 0

\* the pile chosen for apos, given the pile k used by the previous step
PileFor(stacks, k, apos) ==
  IF stacks # <<>> /\ stacks[Len(stacks)] < apos THEN Len(stacks)
  ELSE IF stacks # <<>> /\ stacks[k + 1] < apos
          /\ (k = Len(stacks) - 1 \/ stacks[k + 2] > apos) THEN k + 1
  ELSE bisect(stacks, apos)

\* one step of the loop: the piles after apos goes onto pile k
PatienceStep(st, bpos, apos, k) ==
  [stacks |-> IF k < Len(st.stacks) THEN [st.stacks EXCEPT ![k + 1] = apos]
              ELSE Append(st.stacks, apos),
   lasts |-> IF k < Len(st.stacks) THEN [st.lasts EXCEPT ![k + 1] = bpos]
             ELSE Append(st.lasts, bpos),
   backpointers |-> IF k > 0 THEN [st.backpointers EXCEPT ![bpos + 1] = st.lasts[k]]
                    ELSE st.backpointers,
   k |-> k]

RECURSIVE PatienceLoop(_, _, _)
PatienceLoop(btoa, bpos, st) ==
  IF bpos >= Len(btoa) THEN st
  ELSE IF btoa[bpos + 1] = NoPos THEN PatienceLoop(btoa, bpos + 1, st)
  ELSE PatienceLoop(btoa, bpos + 1,
         PatienceStep(st, bpos, btoa[bpos + 1],
                      PileFor(st.stacks, st.k, btoa[bpos + 1])))

\* follow the backpointers from k; the list comes out reversed, as in the code
RECURSIVE Backtrack(_, _, _)
Backtrack(btoa, backpointers, k) ==
  IF k = NoPos THEN <<>>
  ELSE Backtrack(btoa, backpointers, backpointers[k + 1]) \o <<(<<btoa[k + 1], k>>)>>

\* the result read off the piles st
LcsResult(btoa, st) ==
  IF Len(st.lasts) = 0 THEN <<>>
  ELSE Backtrack(btoa, st.backpointers, st.lasts[Len(st.lasts)])

LcsOfBtoa(btoa) ==
  LcsResult(btoa,
            PatienceLoop(btoa, 0,
              [stacks |-> <<>>, lasts |-> <<>>,
               backpointers |-> [i \in 1..Len(btoa) |-> NoPos], k |-> 0]))

unique_lcs_py(xa, xb) == LcsOfBtoa(Btoa(xa, xb))

(***************************************************************************)
(* difflib.SequenceMatcher(None, xa, xb).get_matching_blocks(), the        *)
(* classical matcher the klondike code calls, with no junk (isjunk is None *)
(* and the inputs are shorter than the 200 elements that switch on the     *)
(* popularity heuristic).                                                  *)
(***************************************************************************)
\* length of the common run of xa and xb starting at (i, j), inside the region
RECURSIVE CommonLen(_, _, _, _, _, _)
CommonLen(xa, xb, i, j, ahi, bhi) ==
  IF i < ahi /\ j < bhi /\ xa[i + 1] = xb[j + 1]
  THEN 1 + CommonLen(xa, xb, i + 1, j + 1, ahi, bhi) ELSE 0

\* the longest run of the table cl: the one starting earliest in xa among
\* the longest, and earliest in xb among those
LongestOf(cl, alo, blo, K) ==
  IF K = 0 THEN <<alo, blo, 0>>
  ELSE LET starts == {p \in DOMAIN cl : cl[p] = K}
           besti == CHOOSE i \in {p[1] : p \in starts} :
                      \A p \in starts : i <= p[1]
           bestj == CHOOSE j \in {p[2] : p \in {q \in starts : q[1] = besti}} :
                      \A p \in starts : p[1] = besti => j <= p[2]
       IN <<besti, bestj, K>>

LongestIn(cl, alo, blo) ==
  LongestOf(cl, alo, blo,
            CHOOSE k \in {cl[p] : p \in DOMAIN cl} \cup {0} :
              \A p \in DOMAIN cl : cl[p] <= k)

find_longest_match(xa, xb, alo, ahi, blo, bhi) ==
  LongestIn([p \in (alo..(ahi - 1)) \X (blo..(bhi - 1)) |->
               CommonLen(xa, xb, p[1], p[2], ahi, bhi)],
            alo, blo)

\* the blocks found in the region, in increasing order (the code collects
\* them from a work list and sorts them); x is the region's longest match
RECURSIVE DifflibRegion(_, _, _, _)
RECURSIVE DifflibSplit(_, _, _, _, _)
DifflibSplit(xa, xb, lo, hi, x) ==
  IF x[3] = 0 THEN <<>>
  ELSE (IF lo[1] < x[1] /\ lo[2] < x[2]
        THEN DifflibRegion(xa, xb, lo, <<x[1], x[2]>>) ELSE <<>>)
       \o <<x>>
       \o (IF x[1] + x[3] < hi[1] /\ x[2] + x[3] < hi[2]
           THEN DifflibRegion(xa, xb, <<x[1] + x[3], x[2] + x[3]>>, hi) ELSE <<>>)

\* lo is (alo, blo), hi is (ahi, bhi)
DifflibRegion(xa, xb, lo, hi) ==
  DifflibSplit(xa, xb, lo, hi,
               find_longest_match(xa, xb, lo[1], hi[1], lo[2], hi[2]))

\* the pass that merges adjacent blocks; cur is the block (i1, j1, k1) held
RECURSIVE DifflibMerge(_, _, _)
DifflibMerge(blocks, n, cur) ==
  IF n > Len(blocks) THEN (IF cur[3] # 0 THEN <<cur>> ELSE <<>>)
  ELSE IF cur[1] + cur[3] = blocks[n][1] /\ cur[2] + cur[3] = blocks[n][2]
  THEN DifflibMerge(blocks, n + 1, <<cur[1], cur[2], cur[3] + blocks[n][3]>>)
  ELSE (IF cur[3] # 0 THEN <<cur>> ELSE <<>>) \o DifflibMerge(blocks, n + 1, blocks[n])

difflib_get_matching_blocks(xa, xb) ==
  Append(DifflibMerge(DifflibRegion(xa, xb, <<0, 0>>, <<Len(xa), Len(xb)>>),
                      1, <<0, 0, 0>>),
         <<Len(xa), Len(xb), 0>>)

(***************************************************************************)
(* recurse_matches_py, _collapse_sequences, _check_consistency.            *)
(***************************************************************************)
\* the run appended one place too far
DiagonalShifted(i0, j0, n) == [k \in 1..n |-> <<i0 + k, j0 + k>>]

\* the pairs (i0 + k, j0 + k) for k = 0 .. n-1
Diagonal(i0, j0, n) == [k \in 1..n |-> <<i0 + k - 1, j0 + k - 1>>]

\* number of equal elements consumed from the left of the region
RECURSIVE EqualFromStart(_, _, _, _, _, _)
EqualFromStart(xa, xb, alo, blo, ahi, bhi) ==
  IF alo < ahi /\ blo < bhi /\ xa[alo + 1] = xb[blo + 1]
  THEN 1 + EqualFromStart(xa, xb, alo + 1, blo + 1, ahi, bhi) ELSE 0

\* number of steps nahi, nbhi move down after the last elements matched
RECURSIVE EqualFromEnd(_, _, _, _, _, _)
EqualFromEnd(xa, xb, alo, blo, nahi, nbhi) ==
  IF nahi > alo /\ nbhi > blo /\ xa[nahi] = xb[nbhi]
  THEN 1 + EqualFromEnd(xa, xb, alo, blo, nahi - 1, nbhi - 1) ELSE 0

RECURSIVE recurse_matches_py(_, _, _, _, _, _, _, _)
RECURSIVE AnchorLoop(_, _, _, _, _, _, _)
RECURSIVE AfterAnchors(_, _, _, _, _, _, _)
RECURSIVE MatchStart(_, _, _, _, _, _, _)
RECURSIVE MatchEnd(_, _, _, _, _, _, _)

\* the rest of the region searched with the depth bound left as it is
MatchStartSameDepth(xa, xb, lo, hi, answer, maxrecursion, n) ==
  recurse_matches_py(xa, xb, lo[1] + n, lo[2] + n, hi[1], hi[2],
                     answer \o [k \in 1..n |-> <<lo[1] + k - 1, lo[2] + k - 1>>],
                     maxrecursion)

\* the loop over the anchors lcs[n..], given relative to lo = (alo, blo);
\* st holds last_a_pos, last_b_pos and answer
AnchorLoop(xa, xb, lo, lcs, n, st, maxrecursion) ==
  IF n > Len(lcs) THEN st
  ELSE AnchorLoop(xa, xb, lo, lcs, n + 1,
         [last_a_pos |-> lcs[n][1] + lo[1],
          last_b_pos |-> lcs[n][2] + lo[2],
          answer |->
            Append(IF st.last_a_pos + 1 # lcs[n][1] + lo[1]
                      \/ st.last_b_pos + 1 # lcs[n][2] + lo[2]
                   THEN recurse_matches_py(xa, xb, st.last_a_pos + 1, st.last_b_pos + 1,
                                           lcs[n][1] + lo[1], lcs[n][2] + lo[2],
                                           st.answer, maxrecursion - 1)
                   ELSE st.answer,
                   <<lcs[n][1] + lo[1], lcs[n][2] + lo[2]>>)],
         maxrecursion)

\* "find matching lines at the very beginning": n lines are equal
MatchStart(xa, xb, lo, hi, answer, maxrecursion, n) ==
  recurse_matches_py(xa, xb, lo[1] + n, lo[2] + n, hi[1], hi[2],
                     answer \o Diagonal(lo[1], lo[2], n), maxrecursion - 1)

\* "find matching lines at the very end": nhi is (nahi, nbhi)
MatchEnd(xa, xb, lo, hi, answer, maxrecursion, nhi) ==
  recurse_matches_py(xa, xb, lo[1], lo[2], nhi[1], nhi[2], answer, maxrecursion - 1)
  \o Diagonal(nhi[1], nhi[2], hi[1] - nhi[1])

\* the part of recurse_matches_py after the loop over the anchors
AfterAnchors(xa, xb, lo, hi, answer, maxrecursion, st) ==
  IF Len(st.answer) > Len(answer)
  THEN recurse_matches_py(xa, xb, st.last_a_pos + 1, st.last_b_pos + 1,
                          hi[1], hi[2], st.answer, maxrecursion - 1)
  ELSE IF xa[lo[1] + 1] = xb[lo[2] + 1]
  THEN MatchStart(xa, xb, lo, hi, answer, maxrecursion,
                  EqualFromStart(xa, xb, lo[1], lo[2], hi[1], hi[2]))
  ELSE IF xa[hi[1]] = xb[hi[2]]
  THEN MatchEnd(xa, xb, lo, hi, answer, maxrecursion,
                <<hi[1] - 1 - EqualFromEnd(xa, xb, lo[1], lo[2], hi[1] - 1, hi[2] - 1),
                  hi[2] - 1 - EqualFromEnd(xa, xb, lo[1], lo[2], hi[1] - 1, hi[2] - 1)>>)
  ELSE answer

recurse_matches_py(xa, xb, alo, blo, ahi, bhi, answer, maxrecursion) ==
  IF maxrecursion < 0 THEN answer
  ELSE IF alo = ahi \/ blo = bhi THEN answer
  ELSE AfterAnchors(xa, xb, <<alo, blo>>, <<ahi, bhi>>, answer, maxrecursion,
         AnchorLoop(xa, xb, <<alo, blo>>,
                    unique_lcs_py(PySlice(xa, alo, ahi), PySlice(xb, blo, bhi)), 1,
                    [last_a_pos |-> alo - 1, last_b_pos |-> blo - 1, answer |-> answer],
                    maxrecursion))

\* the whole list taken for one run
CollapseAsOneRun(matches, n, cur) ==
  IF matches = <<>> THEN <<>>
  ELSE <<(<<matches[1][1], matches[1][2], Len(matches)>>)>>

\* cur is (start_a, start_b, length); length 0 stands for start_a = None
RECURSIVE CollapseLoop(_, _, _)
CollapseLoop(matches, n, cur) ==
  IF n > Len(matches) THEN (IF cur[3] # 0 THEN <<cur>> ELSE <<>>)
  ELSE IF cur[3] # 0 /\ matches[n][1] = cur[1] + cur[3]
          /\ matches[n][2] = cur[2] + cur[3]
  THEN CollapseLoop(matches, n + 1, <<cur[1], cur[2], cur[3] + 1>>)
  ELSE (IF cur[3] # 0 THEN <<cur>> ELSE <<>>)
       \o CollapseLoop(matches, n + 1, <<matches[n][1], matches[n][2], 1>>)

\* no run is collapsed: every pair becomes a block of length 1
CollapseNone(matches) ==
  [n \in DOMAIN matches |-> <<matches[n][1], matches[n][2], 1>>]

_collapse_sequences(matches) == CollapseLoop(matches, 1, <<0, 0, 0>>)

\* TRUE when _check_consistency(answer) raises ValueError
RECURSIVE ConsistencyLoop(_, _, _, _)
ConsistencyLoop(answer, n, next_a, next_b) ==
  IF n > Len(answer) THEN FALSE
  ELSE IF answer[n][1] < next_a \/ answer[n][2] < next_b THEN TRUE
  ELSE ConsistencyLoop(answer, n + 1, answer[n][1] + answer[n][3],
                       answer[n][2] + answer[n][3])

_check_consistency(answer) == ConsistencyLoop(answer, 1, -1, -1)

(***************************************************************************)
(* PatienceSequenceMatcher_py.get_matching_blocks.                         *)
(***************************************************************************)
MaxRecursion == 10

Ok(v) == [err |-> "none", val |-> v]
Raise(e) == [err |-> e, val |-> <<>>]

\* [clear_junk.sub('', s) for s in ls]
ClearAll(ls) == [i \in DOMAIN ls |-> clear_junk(ls[i])]

\* [s.strip() for s in ls]
StripAll(ls) == [i \in DOMAIN ls |-> strip(ls[i])]

\* the filter left out: every anchor pair is kept
SelectPairsUnfiltered(xa, xb, matches) == matches

RECURSIVE SelectPairs(_, _, _)
\* [m for m in matches if self.a[m[0]] == self.b[m[1]]]
SelectPairs(xa, xb, matches) ==
  IF matches = <<>> THEN <<>>
  ELSE (IF xa[Head(matches)[1] + 1] = xb[Head(matches)[2] + 1]
        THEN <<Head(matches)>> ELSE <<>>)
       \o SelectPairs(xa, xb, Tail(matches))

\* the outcome of the consistency check on the stored list
Checked(blocks) ==
  [err |-> IF _check_consistency(blocks) THEN "ValueError" ELSE "none",
   val |-> blocks]

\* the list stored in self.matching_blocks, and whether the check raises
PatienceBlocks(xa, xb) ==
  Checked(Append(_collapse_sequences(
                   SelectPairs(xa, xb,
                     recurse_matches_py(StripAll(xa), StripAll(xb), 0, 0,
                                        Len(xa), Len(xb), <<>>, MaxRecursion))),
                 <<Len(xa), Len(xb), 0>>))

(***************************************************************************)
(* KlondikeSequenceMatcher.get_matching_blocks and the copy of it in       *)
(* PatienceSequenceMatcher_py.get_nearly_matching_blocks.                  *)
(***************************************************************************)
\* the outcome of evaluating xs[i] == ys[j] on Python lists
Cmp(xs, i, ys, j) ==
  IF ~InRange(xs, i) \/ ~InRange(ys, j) THEN "IndexError"
  ELSE IF PyGet(xs, i) = PyGet(ys, j) THEN "eq" ELSE "ne"

\* while a_ws[start_line] == b_ws[start_line]: start_line += 1
RECURSIVE PrefixLoop(_, _, _)
PrefixLoop(xa, xb, start_line) ==
  IF Cmp(xa, start_line, xb, start_line) = "IndexError" THEN Raise("IndexError")
  ELSE IF Cmp(xa, start_line, xb, start_line) = "eq"
  THEN PrefixLoop(xa, xb, start_line + 1)
  ELSE Ok(start_line)

\* while a_ws[end_line] == b_ws[end_line]: end_line -= 1
RECURSIVE SuffixLoop(_, _, _)
SuffixLoop(xa, xb, end_line) ==
  IF Cmp(xa, end_line, xb, end_line) = "IndexError" THEN Raise("IndexError")
  ELSE IF Cmp(xa, end_line, xb, end_line) = "eq"
  THEN SuffixLoop(xa, xb, end_line - 1)
  ELSE Ok(end_line)

\* while a_ws[apos + start] == b_ws[bpos + start]: start -= 1
RECURSIVE GrowBack(_, _, _, _, _)
GrowBack(xa, xb, apos, bpos, start) ==
  IF Cmp(xa, apos + start, xb, bpos + start) = "IndexError" THEN Raise("IndexError")
  ELSE IF Cmp(xa, apos + start, xb, bpos + start) = "eq"
  THEN GrowBack(xa, xb, apos, bpos, start - 1)
  ELSE Ok(start)

\* while a_ws[apos + end] == b_ws[bpos + end]: end += 1
RECURSIVE GrowForward(_, _, _, _, _)
GrowForward(xa, xb, apos, bpos, end) ==
  IF Cmp(xa, apos + end, xb, bpos + end) = "IndexError" THEN Raise("IndexError")
  ELSE IF Cmp(xa, apos + end, xb, bpos + end) = "eq"
  THEN GrowForward(xa, xb, apos, bpos, end + 1)
  ELSE Ok(end)

RECURSIVE ShiftBlocks(_, _, _)
\* [(a+last_a, b+last_b, s) for a,b,s in in_matches if s]
ShiftBlocks(in_matches, last_a, last_b) ==
  IF in_matches = <<>> THEN <<>>
  ELSE (IF Head(in_matches)[3] # 0
        THEN <<(<<Head(in_matches)[1] + last_a, Head(in_matches)[2] + last_b,
                  Head(in_matches)[3]>>)>>
        ELSE <<>>)
       \o ShiftBlocks(Tail(in_matches), last_a, last_b)

\* the blocks difflib finds in the gap before a grown anchor
GapMatches(xa, xb, last_a, last_b, astart, bstart) ==
  IF astart > last_a /\ bstart > last_b /\ astart + bstart > last_a + last_b + 2
  THEN ShiftBlocks(difflib_get_matching_blocks(PySlice(xa, last_a, astart),
                                               PySlice(xb, last_b, bstart)),
                   last_a, last_b)
  ELSE <<>>

\* the anchor (apos, bpos) grown to start..end: the gap's matches and the
\* block are appended
Commit(xa, xb, st, pos, start, end) ==
  [matches |-> (st.matches
                \o GapMatches(xa, xb, st.last_a, st.last_b,
                              pos[1] + start, pos[2] + start))
               \o <<(<<pos[1] + start, pos[2] + start, end - start>>)>>,
   last_a |-> pos[1] + end,
   last_b |-> pos[2] + end]

\* the loop that grows the anchors result[n..]; st holds matches, last_a, last_b
RECURSIVE GrowLoop(_, _, _, _, _)
RECURSIVE AfterGrowBack(_, _, _, _, _, _)
RECURSIVE AfterGrowForward(_, _, _, _, _, _, _)
AfterGrowForward(xa, xb, result, n, st, start, fwd) ==
  IF fwd.err # "none" THEN fwd
  ELSE GrowLoop(xa, xb, result, n + 1, Commit(xa, xb, st, result[n], start, fwd.val))

AfterGrowBack(xa, xb, result, n, st, back) ==
  IF back.err # "none" THEN back
  ELSE AfterGrowForward(xa, xb, result, n, st, back.val + 1,
                        GrowForward(xa, xb, result[n][1], result[n][2], 1))

GrowLoop(xa, xb, result, n, st) ==
  IF n > Len(result) THEN Ok(st)
  ELSE IF result[n][1] <= st.last_a THEN GrowLoop(xa, xb, result, n + 1, st)
  ELSE AfterGrowBack(xa, xb, result, n, st,
                     GrowBack(xa, xb, result[n][1], result[n][2], -1))

\* the anchors in absolute coordinates
ShiftPairs(result, start_line) ==
  [n \in DOMAIN result |-> <<result[n][1] + start_line, result[n][2] + start_line>>]

\* for k in range(d): if a_ws[base + d - k - 1] == '': ... break
\* the k at which the loop breaks, d when it runs to its end
RECURSIVE BlankShift(_, _, _, _)
BlankShift(xa, base, d, k) ==
  IF k >= d THEN Ok(d)
  ELSE IF ~InRange(xa, base + d - k - 1) THEN Raise("IndexError")
  ELSE IF PyGet(xa, base + d - k - 1) = <<>> THEN Ok(k)
  ELSE BlankShift(xa, base, d, k + 1)

\* block n shortened by k and block n+1 moved by d - k (n is a Python index)
Shifted(matches, n, d, k) ==
  [matches EXCEPT
     ![n + 1] = <<@[1], @[2], @[3] - k>>,
     ![n + 2] = <<@[1] + (d - k), @[2] + (d - k), @[3] - (d - k)>>]

\* the loop over enumerate(matches[:-1]); orig is the copy matches[:-1] made
\* before the loop, matches the list the loop rewrites
RECURSIVE ReconcileLoop(_, _, _, _)
RECURSIVE ReconcileBy(_, _, _, _, _)
RECURSIVE ReconcileShift(_, _, _, _, _, _)
ReconcileShift(xa, orig, matches, n, d, sh) ==
  IF sh.err # "none" THEN sh
  ELSE ReconcileLoop(xa, orig,
                     Shifted(matches, n, d, IF sh.val < d THEN sh.val ELSE 0), n + 1)

ReconcileBy(xa, orig, matches, n, d) ==
  IF d > 0
  THEN ReconcileShift(xa, orig, matches, n, d, BlankShift(xa, matches[n + 2][1], d, 0))
  ELSE ReconcileLoop(xa, orig, matches, n + 1)

ReconcileLoop(xa, orig, matches, n) ==
  IF n >= Len(orig) THEN Ok(matches)
  ELSE ReconcileBy(xa, orig, matches, n,
         Max(orig[n + 1][1] + orig[n + 1][3] - matches[n + 2][1],
             orig[n + 1][2] + orig[n + 1][3] - matches[n + 2][2]))

Reconcile(xa, matches) ==
  ReconcileLoop(xa, SubSeq(matches, 1, Len(matches) - 1), matches, 0)

\* the part of the method after the anchors are grown; tail is the block for
\* the common suffix, if any
AfterGrow(xa, xb, grown, tail) ==
  IF grown.err # "none" THEN grown
  ELSE Reconcile(xa, (grown.val.matches \o tail) \o <<(<<Len(xa), Len(xb), 0>>)>>)

\* the part after the common prefix and suffix are known: the middle slices
\* end at hi = (ahi, bhi)
GrowFrom(xa, xb, start_line, hi, tail) ==
  AfterGrow(xa, xb,
    GrowLoop(xa, xb,
             ShiftPairs(unique_lcs_py(PySlice(xa, start_line, hi[1]),
                                      PySlice(xb, start_line, hi[2])),
                        start_line),
             1,
             [matches |-> IF start_line # 0 THEN <<(<<0, 0, start_line>>)>> ELSE <<>>,
              last_a |-> start_line, last_b |-> start_line]),
    tail)

\* klondike: end_line += 1, and end_line = 0 becomes None, "slicing till the end"
KlondikeAfterSuffix(xa, xb, start_line, suf) ==
  IF suf.err # "none" THEN suf
  ELSE IF suf.val + 1 = 0
  THEN GrowFrom(xa, xb, start_line, <<Len(xa), Len(xb)>>, <<>>)
  ELSE GrowFrom(xa, xb, start_line, <<suf.val + 1, suf.val + 1>>,
                <<(<<Len(xa) + suf.val + 1, Len(xb) + suf.val + 1, -(suf.val + 1)>>)>>)

KlondikeAfterPrefix(xa, xb, pre) ==
  IF pre.err # "none" THEN pre
  ELSE KlondikeAfterSuffix(xa, xb, pre.val, SuffixLoop(xa, xb, -1))

\* KlondikeSequenceMatcher.get_matching_blocks on junk-cleared lines xa, xb:
\* the list assigned to self.matching_blocks, or the exception raised before
KlondikeMatches(xa, xb) == KlondikeAfterPrefix(xa, xb, PrefixLoop(xa, xb, 0))

\* get_nearly_matching_blocks: end_line is used as the loop leaves it
NearlyAfterSuffix(xa, xb, start_line, suf) ==
  IF suf.err # "none" THEN suf
  ELSE GrowFrom(xa, xb, start_line, <<suf.val, suf.val>>,
                IF suf.val < -1
                THEN <<(<<Len(xa) + suf.val, Len(xb) + suf.val, -suf.val>>)>>
                ELSE <<>>)

NearlyAfterPrefix(xa, xb, pre) ==
  IF pre.err # "none" THEN pre
  ELSE NearlyAfterSuffix(xa, xb, pre.val, SuffixLoop(xa, xb, -1))

NearlyMatches(xa, xb) == NearlyAfterPrefix(xa, xb, PrefixLoop(xa, xb, 0))

(***************************************************************************)
(* get_opcodes.  An opcode is <<tag, i1, i2, j1, j2>>.  The loops append   *)
(* to the list that self.opcodes already names, so a loop that raises      *)
(* returns the exception together with the list as it stands.              *)
(***************************************************************************)
RaiseWith(e, answer) == [err |-> e, val |-> answer]

MinMatch == 5

add_tag(t) ==
  <<(IF t[1] = t[2] THEN "insert" ELSE IF t[3] = t[4] THEN "delete" ELSE "replace")>> \o t

\* sep.join(ls)
RECURSIVE Join(_, _)
Join(sep, ls) ==
  IF ls = <<>> THEN <<>>
  ELSE IF Len(ls) = 1 THEN ls[1]
  ELSE (ls[1] \o sep) \o Join(sep, Tail(ls))

\* while cur <= m: cur += len(ws[i + cur_n]) + 2; cur_n += 1
\* c is (cur, cur_n)
RECURSIVE Advance(_, _, _, _)
Advance(ws, i, m, c) ==
  IF c[1] > m THEN Ok(c)
  ELSE IF ~InRange(ws, i + c[2]) THEN Raise("IndexError")
  ELSE Advance(ws, i, m, <<c[1] + Len(PyGet(ws, i + c[2])) + 2, c[2] + 1>>)

\* the opcodes a character match appends once the cursors stand at line
\* cur = (cur_an, cur_bn); c is the outcome of comparing the raw lines
MatchOpcodes(st, i, j, cur, c) ==
  Append(IF st.prev_an < cur[1] - 1 \/ st.prev_bn < cur[2] - 1
         THEN Append(st.answer,
                add_tag(<<i + st.prev_an, i + cur[1] - 1, j + st.prev_bn, j + cur[2] - 1>>))
         ELSE st.answer,
         <<(IF c = "eq" THEN "equal" ELSE "replace"),
           i + cur[1] - 1, i + cur[1], j + cur[2] - 1, j + cur[2]>>)

\* the loop over the character matches ms[n..] of the joined replace region;
\* src is (self.a, self.b, a_ws, b_ws), at is (i, j); st holds cur_a, cur_b,
\* cur_an, cur_bn, prev_an, prev_bn and answer
RECURSIVE EffortLoop(_, _, _, _, _)
RECURSIVE EffortAfterA(_, _, _, _, _, _)
RECURSIVE EffortAfterB(_, _, _, _, _, _, _)
RECURSIVE EffortEmit(_, _, _, _, _, _, _)
EffortEmit(src, at, ms, n, st, cur, c) ==
  IF c = "IndexError"
  THEN RaiseWith("IndexError",
         IF st.prev_an < cur[1] - 1 \/ st.prev_bn < cur[2] - 1
         THEN Append(st.answer,
                add_tag(<<at[1] + st.prev_an, at[1] + cur[1] - 1,
                          at[2] + st.prev_bn, at[2] + cur[2] - 1>>))
         ELSE st.answer)
  ELSE EffortLoop(src, at, ms, n + 1,
         [st EXCEPT !.answer = MatchOpcodes(st, at[1], at[2], cur, c),
                    !.prev_an = cur[1], !.prev_bn = cur[2]])

EffortAfterB(src, at, ms, n, st, adv_a, adv_b) ==
  IF adv_b.err # "none" THEN RaiseWith(adv_b.err, st.answer)
  ELSE IF st.prev_an < adv_a.val[2] /\ st.prev_bn < adv_b.val[2]
  THEN EffortEmit(src, at, ms, n,
         [st EXCEPT !.cur_a = adv_a.val[1], !.cur_an = adv_a.val[2],
                    !.cur_b = adv_b.val[1], !.cur_bn = adv_b.val[2]],
         <<adv_a.val[2], adv_b.val[2]>>,
         Cmp(src[1], at[1] + adv_a.val[2] - 1, src[2], at[2] + adv_b.val[2] - 1))
  ELSE EffortLoop(src, at, ms, n + 1,
         [st EXCEPT !.cur_a = adv_a.val[1], !.cur_an = adv_a.val[2],
                    !.cur_b = adv_b.val[1], !.cur_bn = adv_b.val[2]])

EffortAfterA(src, at, ms, n, st, adv_a) ==
  IF adv_a.err # "none" THEN RaiseWith(adv_a.err, st.answer)
  ELSE EffortAfterB(src, at, ms, n, st, adv_a,
                    Advance(src[4], at[2], ms[n][2], <<st.cur_b, st.cur_bn>>))

EffortLoop(src, at, ms, n, st) ==
  IF n > Len(ms) THEN Ok(st)
  ELSE IF ms[n][3] < MinMatch THEN EffortLoop(src, at, ms, n + 1, st)
  ELSE EffortAfterA(src, at, ms, n, st,
                    Advance(src[3], at[1], ms[n][1], <<st.cur_a, st.cur_an>>))

\* the trailing replace for what the character matches left
EffortTail(i, ai, j, bj, r) ==
  IF r.err # "none" THEN r
  ELSE IF i + r.val.prev_an < ai \/ j + r.val.prev_bn < bj
  THEN Ok(Append(r.val.answer,
                 add_tag(<<i + r.val.prev_an, ai, j + r.val.prev_bn, bj>>)))
  ELSE Ok(r.val.answer)

\* the extra-effort splitting of the replace region a[i:ai], b[j:bj]
ExtraEffort(src, i, ai, j, bj, answer) ==
  EffortTail(i, ai, j, bj,
    EffortLoop(src, <<i, j>>,
      difflib_get_matching_blocks(Join(<<"a", "\n">>, PySlice(src[3], i, ai)),
                                  Join(<<"b", "\n">>, PySlice(src[4], j, bj))),
      1,
      [cur_a |-> 0, cur_b |-> 0, cur_an |-> 0, cur_bn |-> 0,
       prev_an |-> 0, prev_bn |-> 0, answer |-> answer]))

\* the opcodes for the region between the cursor (i, j) and the block (ai, bj)
GapOpcodes(src, effort, i, ai, j, bj, answer) ==
  IF i < ai /\ j < bj
  THEN IF effort /\ (i < ai - 1 \/ j < bj - 1)
       THEN ExtraEffort(src, i, ai, j, bj, answer)
       ELSE Ok(Append(answer, <<"replace", i, ai, j, bj>>))
  ELSE IF i < ai THEN Ok(Append(answer, <<"delete", i, ai, j, bj>>))
  ELSE IF j < bj THEN Ok(Append(answer, <<"insert", i, ai, j, bj>>))
  ELSE Ok(answer)

\* "check matches for junk changes": the loop over n in range(size) and the
\* trailing equal; blk is (ai, bj, size), pos is (n, n1)
RECURSIVE JunkLoop(_, _, _, _, _)
JunkLoop(xa, xb, blk, pos, answer) ==
  IF pos[1] >= blk[3]
  THEN Ok(IF pos[2] < blk[3]
          THEN Append(answer, <<"equal", blk[1] + pos[2], blk[1] + blk[3],
                                blk[2] + pos[2], blk[2] + blk[3]>>)
          ELSE answer)
  ELSE IF Cmp(xa, blk[1] + pos[1], xb, blk[2] + pos[1]) = "IndexError"
  THEN RaiseWith("IndexError", answer)
  ELSE IF Cmp(xa, blk[1] + pos[1], xb, blk[2] + pos[1]) = "ne"
  THEN JunkLoop(xa, xb, blk, <<pos[1] + 1, pos[1] + 1>>,
         Append(IF pos[2] < pos[1]
                THEN Append(answer, <<"equal", blk[1] + pos[2], blk[1] + pos[1],
                                      blk[2] + pos[2], blk[2] + pos[1]>>)
                ELSE answer,
                <<"replace", blk[1] + pos[1], blk[1] + pos[1] + 1,
                  blk[2] + pos[1], blk[2] + pos[1] + 1>>))
  ELSE JunkLoop(xa, xb, blk, <<pos[1] + 1, pos[2]>>, answer)

\* the loop over the blocks; cursor is (i, j)
RECURSIVE OpcodeLoop(_, _, _, _, _)
RECURSIVE AfterGap(_, _, _, _)
RECURSIVE AfterJunk(_, _, _, _)
AfterJunk(src, effort, blocks, junk) ==
  IF junk.err # "none" THEN junk
  ELSE OpcodeLoop(src, effort, Tail(blocks),
                  <<Head(blocks)[1] + Head(blocks)[3], Head(blocks)[2] + Head(blocks)[3]>>,
                  junk.val)

AfterGap(src, effort, blocks, gap) ==
  IF gap.err # "none" THEN gap
  ELSE AfterJunk(src, effort, blocks,
                 JunkLoop(src[1], src[2], Head(blocks), <<0, 0>>, gap.val))

OpcodeLoop(src, effort, blocks, cursor, answer) ==
  IF blocks = <<>> THEN Ok(answer)
  ELSE AfterGap(src, effort, blocks,
                GapOpcodes(src, effort, cursor[1], Head(blocks)[1],
                           cursor[2], Head(blocks)[2], answer))

\* "sanity check if both documents are fully covered": the exception raised
RECURSIVE Adjacent(_, _, _, _)
Adjacent(answer, n, i3, j3) ==
  IF n > Len(answer) THEN TRUE
  ELSE answer[n][2] = i3 /\ answer[n][4] = j3
       /\ Adjacent(answer, n + 1, answer[n][3], answer[n][5])

SanityCheck(answer, la, lb) ==
  IF (IF answer = <<>> THEN 0 ELSE answer[Len(answer)][3]) = la
     /\ (IF answer = <<>> THEN 0 ELSE answer[Len(answer)][5]) = lb
  THEN (IF Adjacent(answer, 1, 0, 0) THEN "none" ELSE "Exception")
  \* the message for the end names t, i1, ..., unbound when answer is empty
  ELSE IF answer = <<>> THEN "UnboundLocalError"
  ELSE "Exception"

(***************************************************************************)
(* The methods, on a record of the matcher's attributes.  Each returns the *)
(* matcher after the call and the call's outcome ret: ret.err is "none"    *)
(* and ret.val the list returned, or ret.err names the exception raised.   *)
(***************************************************************************)
Self ==
  [cls |-> cls, a |-> a, b |-> b, extra_effort |-> extra_effort,
   a_ws |-> a_ws, b_ws |-> b_ws, matching_blocks |-> matching_blocks,
   nearly_matching_blocks |-> nearly_matching_blocks, opcodes |-> opcodes]

\* self.matching_blocks = matches, then the consistency check
StoreBlocks(self, r) ==
  IF r.err # "none" THEN [self |-> self, ret |-> Raise(r.err)]
  ELSE [self |-> [self EXCEPT !.matching_blocks = Some(r.val)],
        ret |-> IF _check_consistency(r.val) THEN Raise("ValueError") ELSE Ok(r.val)]

Klondike_get_matching_blocks(self) ==
  IF self.matching_blocks.set
  THEN [self |-> self, ret |-> Ok(self.matching_blocks.val)]
  ELSE StoreBlocks([self EXCEPT !.a_ws = Some(ClearAll(self.a)),
                                !.b_ws = Some(ClearAll(self.b))],
                   KlondikeMatches(ClearAll(self.a), ClearAll(self.b)))

StorePatienceBlocks(self, r) ==
  [self |-> [self EXCEPT !.matching_blocks = Some(r.val)],
   ret |-> IF r.err # "none" THEN Raise(r.err) ELSE Ok(r.val)]

Patience_get_matching_blocks(self) ==
  IF self.matching_blocks.set
  THEN [self |-> self, ret |-> Ok(self.matching_blocks.val)]
  ELSE StorePatienceBlocks(self, PatienceBlocks(self.a, self.b))

StoreNearly(self, r) ==
  IF r.err # "none" THEN [self |-> self, ret |-> Raise(r.err)]
  ELSE [self |-> [self EXCEPT !.nearly_matching_blocks = Some(r.val)],
        ret |-> Ok(r.val)]

Patience_get_nearly_matching_blocks(self) ==
  IF self.nearly_matching_blocks.set
  THEN [self |-> self, ret |-> Ok(self.nearly_matching_blocks.val)]
  ELSE StoreNearly(self, NearlyMatches(ClearAll(self.a), ClearAll(self.b)))

\* the end of get_opcodes: r is the outcome of the loop over the blocks, whose
\* list self.opcodes names whether or not the loop or the check raises
FinishOpcodes(self, r) ==
  [self |-> [self EXCEPT !.opcodes = Some(r.val)],
   ret |-> IF r.err # "none" THEN Raise(r.err)
           ELSE IF SanityCheck(r.val, Len(self.a), Len(self.b)) # "none"
           THEN Raise(SanityCheck(r.val, Len(self.a), Len(self.b)))
           ELSE Ok(r.val)]

\* the part of get_opcodes after "self.opcodes = answer = []", given the
\* outcome mb of the call that yields the blocks; ws is (a_ws, b_ws)
BuildOpcodes(mb, ws, effort) ==
  IF mb.ret.err # "none"
  THEN [self |-> [mb.self EXCEPT !.opcodes = Some(<<>>)], ret |-> Raise(mb.ret.err)]
  ELSE FinishOpcodes(mb.self,
         OpcodeLoop(<<mb.self.a, mb.self.b, ws[1], ws[2]>>, effort,
                    mb.ret.val, <<0, 0>>, <<>>))

KlondikeOpcodesFrom(mb, effort) ==
  BuildOpcodes(mb, <<mb.self.a_ws.val, mb.self.b_ws.val>>, effort)

Klondike_get_opcodes(self) ==
  IF self.opcodes.set THEN [self |-> self, ret |-> Ok(self.opcodes.val)]
  ELSE KlondikeOpcodesFrom(Klondike_get_matching_blocks(self), self.extra_effort # 0)

\* without extra effort the junk-cleared lines are not read
Patience_get_opcodes(self) ==
  IF self.opcodes.set THEN [self |-> self, ret |-> Ok(self.opcodes.val)]
  ELSE BuildOpcodes(Patience_get_nearly_matching_blocks(self), <<(<<>>), <<>>>>, FALSE)

get_matching_blocks(self) ==
  IF self.cls = "Klondike" THEN Klondike_get_matching_blocks(self)
  ELSE Patience_get_matching_blocks(self)

get_opcodes(self) ==
  IF self.cls = "Klondike" THEN Klondike_get_opcodes(self)
  ELSE Patience_get_opcodes(self)

\* the attributes set whatever isjunk is
InitUnguarded(self, c, isjunk, xa, xb, effort) ==
  [self |-> [cls |-> c, a |-> xa, b |-> xb, extra_effort |-> effort,
             a_ws |-> None, b_ws |-> None, matching_blocks |-> None,
             nearly_matching_blocks |-> None, opcodes |-> None],
   ret |-> Ok(<<>>)]

\* __init__(self, isjunk, a, b[, extra_effort]) of class c: the test of
\* isjunk, then difflib.SequenceMatcher.__init__ and the class's attribute;
\* isjunk is the text of the argument
__init__(self, c, isjunk, xa, xb, effort) ==
  IF isjunk # "None" THEN [self |-> self, ret |-> Raise("NotImplementedError")]
  ELSE [self |-> [cls |-> c, a |-> xa, b |-> xb, extra_effort |-> effort,
                  a_ws |-> None, b_ws |-> None, matching_blocks |-> None,
                  nearly_matching_blocks |-> None, opcodes |-> None],
        ret |-> Ok(<<>>)]

\* difflib.SequenceMatcher.set_seq1(a), set_seq2(b) and set_seqs(a, b), which
\* the matcher classes inherit; the argument is a list object other than the
\* one the matcher holds, so "if a is self.a: return" does not return
set_seq1(self, xa) ==
  [self EXCEPT !.a = xa, !.matching_blocks = None, !.opcodes = None]

set_seq2(self, xb) ==
  [self EXCEPT !.b = xb, !.matching_blocks = None, !.opcodes = None]

set_seqs(self, xa, xb) == set_seq2(set_seq1(self, xa), xb)

(***************************************************************************)
(* unified_diff of patiencediff.py and klonpatiencediff.py.  A string is   *)
(* a sequence of one-character strings; the function's result is the list  *)
(* of the lines it yields.                                                 *)
(***************************************************************************)
\* '{}'.format(n) for an integer n >= 0
RECURSIVE Decimal(_)
Decimal(n) ==
  IF n < 10 THEN <<(<<"0", "1", "2", "3", "4", "5", "6", "7", "8", "9">>)[n + 1]>>
  ELSE Decimal(n \div 10) \o Decimal(n % 10)

\* beginning is start + 1 and length is stop - start
_format_range_unified(start, stop) ==
  IF stop - start = 1 THEN Decimal(start + 1)
  ELSE (Decimal(IF stop - start = 0 THEN start ELSE start + 1) \o <<",">>)
       \o Decimal(stop - start)

\* difflib.SequenceMatcher.get_opcodes: the loop over the matching blocks
RECURSIVE DifflibOpcodeLoop(_, _, _)
DifflibOpcodeLoop(blocks, k, cursor) ==
  IF k > Len(blocks) THEN <<>>
  ELSE ((IF cursor[1] < blocks[k][1] /\ cursor[2] < blocks[k][2]
         THEN <<(<<"replace", cursor[1], blocks[k][1], cursor[2], blocks[k][2]>>)>>
         ELSE IF cursor[1] < blocks[k][1]
         THEN <<(<<"delete", cursor[1], blocks[k][1], cursor[2], blocks[k][2]>>)>>
         ELSE IF cursor[2] < blocks[k][2]
         THEN <<(<<"insert", cursor[1], blocks[k][1], cursor[2], blocks[k][2]>>)>>
         ELSE <<>>)
        \o (IF blocks[k][3] # 0
            THEN <<(<<"equal", blocks[k][1], blocks[k][1] + blocks[k][3],
                      blocks[k][2], blocks[k][2] + blocks[k][3]>>)>>
            ELSE <<>>))
       \o DifflibOpcodeLoop(blocks, k + 1,
            <<blocks[k][1] + blocks[k][3], blocks[k][2] + blocks[k][3]>>)

difflib_get_opcodes(xa, xb) ==
  DifflibOpcodeLoop(difflib_get_matching_blocks(xa, xb), 1, <<0, 0>>)

\* get_grouped_opcodes: a leading equal cut to its last n lines
TrimFirst(codes, n) ==
  IF codes[1][1] = "equal"
  THEN [codes EXCEPT ![1] = <<@[1], Max(@[2], @[3] - n), @[3], Max(@[4], @[5] - n), @[5]>>]
  ELSE codes

\* get_grouped_opcodes: then a trailing equal cut to its first n lines
TrimLast(codes, n) ==
  IF codes[Len(codes)][1] = "equal"
  THEN [codes EXCEPT ![Len(codes)] =
          <<@[1], @[2], Min(@[3], @[2] + n), @[4], Min(@[5], @[4] + n)>>]
  ELSE codes

\* get_grouped_opcodes: the loop that splits at equal runs longer than 2n
RECURSIVE GroupLoop(_, _, _, _)
GroupLoop(codes, k, n, group) ==
  IF k > Len(codes)
  THEN (IF group # <<>> /\ ~(Len(group) = 1 /\ group[1][1] = "equal")
        THEN <<group>> ELSE <<>>)
  ELSE IF codes[k][1] = "equal" /\ codes[k][3] - codes[k][2] > n + n
  THEN <<Append(group, <<"equal", codes[k][2], Min(codes[k][3], codes[k][2] + n),
                         codes[k][4], Min(codes[k][5], codes[k][4] + n)>>)>>
       \o GroupLoop(codes, k + 1, n,
            <<(<<"equal", Max(codes[k][2], codes[k][3] - n), codes[k][3],
                 Max(codes[k][4], codes[k][5] - n), codes[k][5]>>)>>)
  ELSE GroupLoop(codes, k + 1, n, Append(group, codes[k]))

GroupsOf(codes, n) ==
  GroupLoop(TrimLast(TrimFirst(IF codes = <<>> THEN <<(<<"equal", 0, 1, 0, 1>>)>>
                                ELSE codes, n), n),
            1, n, <<>>)

difflib_get_grouped_opcodes(xa, xb, n) == GroupsOf(difflib_get_opcodes(xa, xb), n)

\* function_regexp.match(line) for the default r'^\w'
MatchesWord(line) ==
  /\ line # <<>>
  /\ line[1] \in
     {"a", "b", "c", "d", "e", "f", "g", "h", "i", "j", "k", "l", "m", "n",
     "o", "p", "q", "r", "s", "t", "u", "v", "w", "x", "y", "z", "A", "B",
     "C", "D", "E", "F", "G", "H", "I", "J", "K", "L", "M", "N", "O", "P",
     "Q", "R", "S", "T", "U", "V", "W", "X", "Y", "Z", "0", "1", "2", "3",
     "4", "5", "6", "7", "8", "9", "_"}

\* [k for k, line in enumerate(a) if function_regexp.match(line)], from k on
RECURSIVE FunctionLinesFrom(_, _)
FunctionLinesFrom(xa, k) ==
  IF k >= Len(xa) THEN <<>>
  ELSE (IF MatchesWord(xa[k + 1]) THEN <<k>> ELSE <<>>) \o FunctionLinesFrom(xa, k + 1)

\* while current_function < len(function_lines)
\*       and function_lines[current_function] < limit: current_function += 1
RECURSIVE NextFunction(_, _, _)
NextFunction(function_lines, current_function, limit) ==
  IF current_function < Len(function_lines)
     /\ function_lines[current_function + 1] < limit
  THEN NextFunction(function_lines, current_function + 1, limit)
  ELSE current_function

\* every line of ls with the mark in front
RECURSIVE Marked(_, _)
Marked(mark, ls) ==
  IF ls = <<>> THEN <<>> ELSE <<(<<mark>> \o Head(ls))>> \o Marked(mark, Tail(ls))

\* the lines yielded for the opcodes of a group, from opcode k on
RECURSIVE GroupBody(_, _, _, _)
GroupBody(xa, xb, group, k) ==
  IF k > Len(group) THEN <<>>
  ELSE (IF group[k][1] = "equal"
        THEN Marked(" ", PySlice(xa, group[k][2], group[k][3]))
        ELSE (IF group[k][1] \in {"replace", "delete"}
              THEN Marked("-", PySlice(xa, group[k][2], group[k][3])) ELSE <<>>)
             \o (IF group[k][1] \in {"replace", "insert"}
                 THEN Marked("+", PySlice(xb, group[k][4], group[k][5])) ELSE <<>>))
       \o GroupBody(xa, xb, group, k + 1)

\* '--- {}{}{}' and '+++ {}{}{}': yielded before the first group
FileHeader(p) ==
  <<((<<"-", "-", "-", " ">> \o p.fromfile)
     \o (IF p.fromfiledate # <<>> THEN <<"\t">> \o p.fromfiledate ELSE <<>>))
    \o p.lineterm,
    ((<<"+", "+", "+", " ">> \o p.tofile)
     \o (IF p.tofiledate # <<>> THEN <<"\t">> \o p.tofiledate ELSE <<>>))
    \o p.lineterm>>

\* the text after the closing @@: the line of a at function_lines[cf - 1];
\* klonpatiencediff.py strips its trailing whitespace
FunctionText(p, cf) ==
  IF cf > 0
  THEN <<" ">> \o (IF p.rstrip THEN RStrip(p.a[p.function_lines[cf] + 1])
                   ELSE p.a[p.function_lines[cf] + 1])
  ELSE <<>>

\* '@@ -{} +{} @@{}{}'
HunkHeader(p, group, cf) ==
  (((((<<"@", "@", " ", "-">>
       \o _format_range_unified(group[1][2], group[Len(group)][3]))
      \o <<" ", "+">>)
     \o _format_range_unified(group[1][4], group[Len(group)][5]))
    \o <<" ", "@", "@">>)
   \o (IF p.function_lines # <<>> THEN FunctionText(p, cf) ELSE <<>>))
  \o p.lineterm

\* the loop over the groups; cf is current_function once group k is reached
RECURSIVE DiffLoop(_, _, _, _)
DiffLoop(p, groups, k, cf) ==
  IF k > Len(groups) THEN <<>>
  ELSE (((IF k = 1 THEN FileHeader(p) ELSE <<>>)
         \o <<HunkHeader(p, groups[k], cf)>>)
        \o GroupBody(p.a, p.b, groups[k], 1))
       \o (IF k = Len(groups) THEN <<>>
           ELSE DiffLoop(p, groups, k + 1,
                  NextFunction(p.function_lines, cf, groups[k + 1][1][2] + p.n)))

\* the generator run to its end, p holding the arguments and function_lines
DiffLines(p, groups) ==
  IF groups = <<>> THEN <<>>
  ELSE DiffLoop(p, groups, 1,
                NextFunction(p.function_lines, 0, groups[1][1][2] + p.n))

\* unified_diff with sequencematcher = None and function_regexp = r'^\w';
\* p holds a, b, fromfile, tofile, fromfiledate, tofiledate, n, lineterm and
\* rstrip tells klonpatiencediff.py (TRUE) from patiencediff.py (FALSE)
unified_diff(p, rstrip) ==
  DiffLines([a |-> p.a, b |-> p.b, fromfile |-> p.fromfile, tofile |-> p.tofile,
             fromfiledate |-> p.fromfiledate, tofiledate |-> p.tofiledate,
             n |-> p.n, lineterm |-> p.lineterm, rstrip |-> rstrip,
             function_lines |-> FunctionLinesFrom(p.a, 0)],
            difflib_get_grouped_opcodes(p.a, p.b, p.n))

(***************************************************************************)
(* colordiff: LineParser and DiffWriter with colour enabled.  A rendered   *)
(* string is a sequence of segments [text, fg, bg]; text emitted without   *)
(* colour codes is a segment with fg = bg = "none".                        *)
(***************************************************************************)
colors ==
  [metaline |-> "darkyellow", plain |-> "darkwhite", newtext |-> "darkgreen",
   oldtext |-> "darkred", newsame |-> "darkyellow", oldsame |-> "darkyellow",
   diffstuff |-> "darkcyan", trailingspace |-> "red", leadingtabs |-> "magenta",
   longline |-> "white"]

\* terminal.colorstring(text, fgcolor, bgcolor): text wrapped in the codes of
\* the two colours; bgcolor None is written "none"
terminal_colorstring(text, fgcolor, bgcolor) ==
  <<[text |-> text, fg |-> fgcolor, bg |-> bgcolor]>>

parse_line(line) ==
  IF line # <<>> /\ line[1] = "@" THEN "diffstuff"
  ELSE IF line # <<>> /\ line[1] = "+" THEN "newtext"
  ELSE IF line # <<>> /\ line[1] = "-" THEN "oldtext"
  ELSE "plain"

\* length of group 3 of ^(.*?)([\t ]*)(\r?\n)$ on line, 0 when it does not
\* match; "." and "$" leave a match only the "\n" that ends the line
TerminatorLen(line) ==
  IF line = <<>> \/ line[Len(line)] # "\n" THEN 0
  ELSE IF \E k \in 1..(Len(line) - 1) : line[k] = "\n" THEN 0
  ELSE IF Len(line) >= 2 /\ line[Len(line) - 1] = "\r" THEN 2
  ELSE 1

\* length of group 2: the blanks and tabs that end line[1..n]
RECURSIVE BlankTail(_, _)
BlankTail(line, n) ==
  IF n >= 1 /\ line[n] \in {" ", "\t"} THEN 1 + BlankTail(line, n - 1) ELSE 0

\* the three groups of the match, rendered
BadWs(line, body, term) ==
  terminal_colorstring(SubSeq(line, 1, body), colors.newtext, "none")
  \o terminal_colorstring(SubSeq(line, body + 1, term), colors.newtext,
                          colors.trailingspace)
  \o <<[text |-> SubSeq(line, term + 1, Len(line)), fg |-> "none", bg |-> "none"]>>

\* length of group 1 of ^(@@[^@]*@@)(.*\r?\n)$ on line, 0 when it does not match
DiffstuffLen(line) ==
  IF TerminatorLen(line) = 0 \/ Len(line) < 5 \/ line[1] # "@" \/ line[2] # "@"
  THEN 0
  ELSE IF \E k \in 3..(Len(line) - 2) :
            /\ line[k] = "@"
            /\ line[k + 1] = "@"
            /\ \A h \in 3..(k - 1) : line[h] # "@"
       THEN 1 + CHOOSE k \in 3..(Len(line) - 2) :
                   /\ line[k] = "@"
                   /\ line[k + 1] = "@"
                   /\ \A h \in 3..(k - 1) : line[h] # "@"
       ELSE 0

colorstring(type, line) ==
  IF type = "newtext" /\ TerminatorLen(line) > 0
  THEN BadWs(line,
             Len(line) - TerminatorLen(line)
               - BlankTail(line, Len(line) - TerminatorLen(line)),
             Len(line) - TerminatorLen(line))
  ELSE IF type = "diffstuff" /\ DiffstuffLen(line) > 0
  THEN terminal_colorstring(SubSeq(line, 1, DiffstuffLen(line)), colors.diffstuff,
                            "none")
       \o <<[text |-> SubSeq(line, DiffstuffLen(line) + 1, Len(line)),
             fg |-> "none", bg |-> "none"]>>
  ELSE terminal_colorstring(line, colors[type], "none")

\* max(m[2] for m in blocks)
RECURSIVE LongestMatch(_)
LongestMatch(blocks) ==
  IF blocks = <<>> THEN 0 ELSE Max(Head(blocks)[3], LongestMatch(Tail(blocks)))

\* every block kept, the short ones too
RetainedAll(blocks) == blocks

\* [m for m in matches if m[2] == 0 or m[2] >= 3]
Retained(blocks) == SelectSeq(blocks, LAMBDA m : m[3] = 0 \/ m[3] >= 3)

\* for n, m in enumerate(matches[:-1]), on one line: side is 1 for the old
\* line and 2 for the new one
RECURSIVE HighlightLoop(_, _, _, _, _, _)
HighlightLoop(text, matches, n, side, same, changed) ==
  IF n >= Len(matches) THEN <<>>
  ELSE colorstring(same, PySlice(text, matches[n][side],
                                 matches[n][side] + matches[n][3]))
       \o colorstring(changed, PySlice(text, matches[n][side] + matches[n][3],
                                       matches[n + 1][side]))
       \o HighlightLoop(text, matches, n + 1, side, same, changed)

Highlighted(oldtext, newtext, matches) ==
  << colorstring("oldtext", <<"-">>)
       \o colorstring("oldtext", PySlice(oldtext, 0, matches[1][1]))
       \o HighlightLoop(oldtext, matches, 1, 1, "oldsame", "oldtext"),
     colorstring("newtext", <<"+">>)
       \o colorstring("newtext", PySlice(newtext, 0, matches[1][2]))
       \o HighlightLoop(newtext, matches, 1, 2, "newsame", "newtext") >>

ChangedLine(oldtext, newtext, blocks) ==
  IF LongestMatch(blocks) >= 5
  THEN Highlighted(PySlice(oldtext, 1, Len(oldtext)),
                   PySlice(newtext, 1, Len(newtext)), Retained(blocks))
  ELSE <<colorstring("oldtext", oldtext), colorstring("newtext", newtext)>>

parse_changed_line(oldtext, newtext) ==
  ChangedLine(oldtext, newtext,
              difflib_get_matching_blocks(PySlice(oldtext, 1, Len(oldtext)),
                                          PySlice(newtext, 1, Len(newtext))))

\* text.split('\n')
RECURSIVE split(_)
split(text) ==
  IF \A k \in DOMAIN text : text[k] # "\n" THEN <<text>>
  ELSE <<SubSeq(text, 1, (CHOOSE k \in DOMAIN text :
                            text[k] = "\n" /\ \A h \in 1..(k - 1) : text[h] # "\n") - 1)>>
       \o split(SubSeq(text, (CHOOSE k \in DOMAIN text :
                                text[k] = "\n" /\ \A h \in 1..(k - 1) : text[h] # "\n") + 1,
                       Len(text)))

\* _writeline from "if 'oldtext' == line_type and not line.startswith('---')"
\* on; output is what the held line has put into the list
HoldOrEmit(self, line, output) ==
  IF parse_line(line) = "oldtext" /\ PySlice(line, 0, 3) # <<"-", "-", "-">>
  THEN [self EXCEPT !.oldtext_hold = Some(line), !.target = @ \o output]
  ELSE [self EXCEPT !.oldtext_hold = None,
                    !.target = (@ \o output) \o colorstring(parse_line(line), line)]

\* self is the DiffWriter: oldtext_hold, chunks and the text target has got
_writeline(self, line) ==
  IF self.oldtext_hold.set /\ parse_line(line) = "newtext"
  THEN [self EXCEPT
          !.target = (@ \o parse_changed_line(self.oldtext_hold.val, line)[1])
                     \o parse_changed_line(self.oldtext_hold.val, line)[2],
          !.oldtext_hold = None]
  ELSE HoldOrEmit(self, line,
                  IF self.oldtext_hold.set
                  THEN colorstring("oldtext", self.oldtext_hold.val) ELSE <<>>)

\* for newchunk in newstuff[:-1], then self.chunks = [newstuff[-1]]
RECURSIVE WriteLoop(_, _, _)
WriteLoop(self, newstuff, n) ==
  IF n >= Len(newstuff) THEN [self EXCEPT !.chunks = <<newstuff[Len(newstuff)]>>]
  ELSE WriteLoop([_writeline(self, Join(<<>>, self.chunks \o <<newstuff[n], <<"\n">>>>))
                    EXCEPT !.chunks = <<>>],
                 newstuff, n + 1)

\* DiffWriter.write(text) with colour enabled
write(self, text) == WriteLoop(self, split(text), 1)

(***************************************************************************)
(* The state machine: a matcher constructed on (a, b), then any sequence   *)
(* of calls.  mbRet and opRet record the outcome of the latest call of     *)
(* get_matching_blocks and of get_opcodes.                                *)
(***************************************************************************)
NoCall == [err |-> "nocall", val |-> <<>>]

\* the raw lines the inputs are drawn from
LX == <<"x", "\n">>
LSX == <<" ", "x", "\n">>
LY == <<"y", "\n">>
LBlank == <<"\n">>
Lines == {LX, LSX, LY, LBlank}

RECURSIVE SeqsUpTo(_, _)
SeqsUpTo(S, n) ==
  IF n = 0 THEN {<<>>}
  ELSE LET shorter == SeqsUpTo(S, n - 1)
       IN shorter \cup {Append(s, x) : s \in {t \in shorter : Len(t) = n - 1}, x \in S}

\* no module-level function is being called: fn names the function called,
\* arg its arguments and out its result
NoFunction ==
  /\ fn = "none"
  /\ arg = <<>>
  /\ out = <<>>

\* a DiffWriter as __init__ leaves it, nothing written to it; target is the
\* text its target has received and written the texts passed to write()
NewDiffWriter ==
  /\ oldtext_hold = None
  /\ chunks = <<>>
  /\ target = <<>>
  /\ written = <<>>

\* __init__(None, a, b) of either class
Constructed(c, xa, xb, effort) ==
  /\ cls = c
  /\ a = xa
  /\ b = xb
  /\ extra_effort = effort
  /\ a_ws = None
  /\ b_ws = None
  /\ matching_blocks = None
  /\ nearly_matching_blocks = None
  /\ opcodes = None
  /\ mbRet = NoCall
  /\ opRet = NoCall
  /\ NoFunction
  /\ NewDiffWriter

Init ==
  \E c \in {"Klondike", "Patience"}, xa \in SeqsUpTo(Lines, MaxLenA),
     xb \in SeqsUpTo(Lines, MaxLenB) :
    Constructed(c, xa, xb, 1)

\* a klondike matcher on longer inputs over three lines
InitWide ==
  \E xa \in SeqsUpTo({LX, LY, LBlank}, WideLenA),
     xb \in SeqsUpTo({LX, LY, LBlank}, WideLenB) :
    Constructed("Klondike", xa, xb, 1)

\* a patience matcher on inputs of the same bound on both sides
InitPatience ==
  \E xa \in SeqsUpTo(Lines, PatienceLen), xb \in SeqsUpTo(Lines, PatienceLen) :
    Constructed("Patience", xa, xb, 1)

Becomes(self) ==
  /\ a_ws' = self.a_ws
  /\ b_ws' = self.b_ws
  /\ matching_blocks' = self.matching_blocks
  /\ nearly_matching_blocks' = self.nearly_matching_blocks
  /\ opcodes' = self.opcodes
  /\ UNCHANGED <<cls, a, b, extra_effort, fn, arg, out>>
  /\ UNCHANGED <<oldtext_hold, chunks, target, written>>

\* the call leaves the matcher as r.self and its outcome in ret
Returns(r, ret) ==
  /\ Becomes(r.self)
  /\ ret = r.ret

GetMatchingBlocks ==
  /\ Returns(get_matching_blocks(Self), mbRet')
  /\ UNCHANGED opRet

GetOpcodes ==
  /\ Returns(get_opcodes(Self), opRet')
  /\ UNCHANGED mbRet

Next == GetMatchingBlocks \/ GetOpcodes

Spec == Init /\ [][Next]_vars

SpecWide == InitWide /\ [][Next]_vars

SpecPatience == InitPatience /\ [][Next]_vars

\* a klondike matcher on lines long enough for the character matches of the
\* extra-effort path: "p", "q", "wxyzp", "wxyzq", "pwxyzv", "qwxyzv"
InitEffort ==
  \E xa \in SeqsUpTo({<<"p", "\n">>, <<"w", "x", "y", "z", "p", "\n">>,
                      <<"p", "w", "x", "y", "z", "v", "\n">>}, EffortLen),
     xb \in SeqsUpTo({<<"q", "\n">>, <<"w", "x", "y", "z", "q", "\n">>,
                      <<"q", "w", "x", "y", "z", "v", "\n">>,
                      <<"p", "w", "x", "y", "z", "v", "\n">>}, EffortLen) :
    Constructed("Klondike", xa, xb, 1)

SpecEffort == InitEffort /\ [][Next]_vars

\* the docstring's use: a string is compared character by character, so
\* every line is one character; b is a with the element at index k removed
Characters == {<<"a">>, <<"b">>, <<"x">>, <<"c">>, <<"d">>, <<"e">>}

Distinct(xs) == \A i \in DOMAIN xs, j \in DOMAIN xs : xs[i] = xs[j] => i = j

RemoveAt(xs, k) == SubSeq(xs, 1, k) \o SubSeq(xs, k + 2, Len(xs))

InitRemoval ==
  \E c \in {"Klondike", "Patience"},
     xa \in {xs \in SeqsUpTo(Characters, RemovalLen) : xs # <<>> /\ Distinct(xs)} :
    \E k \in 0..(Len(xa) - 1) : Constructed(c, xa, RemoveAt(xa, k), 1)

SpecRemoval == InitRemoval /\ [][Next]_vars

(***************************************************************************)
(* Calls of the module-level functions: the arguments are drawn at the     *)
(* start, one call is made, and out holds what it returns.                 *)
(***************************************************************************)
\* no matcher is constructed
NoMatcher ==
  /\ cls = "none"
  /\ a = <<>>
  /\ b = <<>>
  /\ extra_effort = 0
  /\ a_ws = None
  /\ b_ws = None
  /\ matching_blocks = None
  /\ nearly_matching_blocks = None
  /\ opcodes = None
  /\ mbRet = NoCall
  /\ opRet = NoCall
  /\ NewDiffWriter

\* the call of function f returns r
Called(f, r) ==
  /\ fn = "none"
  /\ fn' = f
  /\ out' = r
  /\ UNCHANGED <<cls, a, b, extra_effort, a_ws, b_ws, matching_blocks,
                 nearly_matching_blocks, opcodes, mbRet, opRet, arg>>
  /\ UNCHANGED <<oldtext_hold, chunks, target, written>>

\* the elements the arguments of unique_lcs_py are drawn from
Elements == {"p", "q", "r", "s"}

\* unique_lcs_py only compares elements, so the first argument is drawn up
\* to renaming: its elements make their first appearance in the order p, q,
\* r, s
Rank == [e \in Elements |-> CASE e = "p" -> 1 [] e = "q" -> 2 [] e = "r" -> 3 [] e = "s" -> 4]

InOrder(xs) ==
  \A i \in DOMAIN xs :
    \/ Rank[xs[i]] = 1
    \/ \E j \in 1..(i - 1) : Rank[xs[j]] >= Rank[xs[i]] - 1

InitLcs ==
  /\ NoMatcher
  /\ fn = "none"
  /\ out = <<>>
  /\ \E xa \in {xs \in SeqsUpTo(Elements, LcsLen) : InOrder(xs)},
        xb \in SeqsUpTo(Elements, LcsLen) :
       arg = <<xa, xb>>

CallUniqueLcs == Called("unique_lcs_py", unique_lcs_py(arg[1], arg[2]))

SpecLcs == InitLcs /\ [][CallUniqueLcs]_vars

(***************************************************************************)
(* Calls of unified_diff on short lists of distinct words; the doctest's   *)
(* call is one of them.                                                    *)
(***************************************************************************)
\* the strings of the doctest
Doctest ==
  [one |-> <<"o", "n", "e">>, two |-> <<"t", "w", "o">>,
   three |-> <<"t", "h", "r", "e", "e">>, four |-> <<"f", "o", "u", "r">>,
   zero |-> <<"z", "e", "r", "o">>, tree |-> <<"t", "r", "e", "e">>,
   Original |-> <<"O", "r", "i", "g", "i", "n", "a", "l">>,
   Current |-> <<"C", "u", "r", "r", "e", "n", "t">>,
   OriginalDate |-> <<"2", "0", "0", "5", "-", "0", "1", "-", "2", "6", " ",
                      "2", "3", ":", "3", "0", ":", "5", "0">>,
   CurrentDate |-> <<"2", "0", "1", "0", "-", "0", "4", "-", "0", "2", " ",
                     "1", "0", ":", "2", "0", ":", "5", "2">>]

\* unified_diff(a, b, 'Original', 'Current', '2005-01-26 23:30:50',
\*              '2010-04-02 10:20:52', n, lineterm='')
DoctestCall(xa, xb, n) ==
  [a |-> xa, b |-> xb, fromfile |-> Doctest.Original, tofile |-> Doctest.Current,
   fromfiledate |-> Doctest.OriginalDate, tofiledate |-> Doctest.CurrentDate,
   n |-> n, lineterm |-> <<>>]

InitDiff ==
  /\ NoMatcher
  /\ fn = "none"
  /\ out = <<>>
  /\ \E xa \in SeqsUpTo({Doctest.one, Doctest.two, Doctest.three, Doctest.four,
                          <<" ", " ", "}">>}, DiffLen),
        xb \in SeqsUpTo({Doctest.zero, Doctest.one, Doctest.tree, Doctest.four}, DiffLen),
        n \in {0, 3} :
       /\ Distinct(xa)
       /\ Distinct(xb)
       /\ arg = DoctestCall(xa, xb, n)

CallUnifiedDiff == Called("patiencediff.unified_diff", unified_diff(arg, FALSE))

CallKlonUnifiedDiff ==
  Called("klonpatiencediff.unified_diff", unified_diff(arg, TRUE))

SpecDiff == InitDiff /\ [][CallUnifiedDiff \/ CallKlonUnifiedDiff]_vars

(***************************************************************************)
(* Calls of recurse_matches_py on a region of two short sequences, and the *)
(* patience matcher on inputs whose k-th common line is only found at      *)
(* recursion depth k - 1.                                                  *)
(***************************************************************************)
InitRecurse ==
  /\ NoMatcher
  /\ fn = "none"
  /\ out = <<>>
  /\ \E xa \in {xs \in SeqsUpTo(Elements \ {"s"}, RecurseLen) : InOrder(xs)},
        xb \in SeqsUpTo(Elements \ {"s"}, RecurseLen) :
       \E ahi \in 0..Len(xa), bhi \in 0..Len(xb) :
         \E alo \in 0..ahi, blo \in 0..bhi, maxrecursion \in {-1, 0, 1, MaxRecursion},
            answer \in {<<>>, <<(<<0, 0>>)>>} :
           arg = [a |-> xa, b |-> xb, alo |-> alo, blo |-> blo, ahi |-> ahi,
                  bhi |-> bhi, answer |-> answer, maxrecursion |-> maxrecursion]

\* the lines u1, u2, ... of the nested inputs; a is u1 u2 ... um
Letters == <<"a", "b", "c", "d", "e", "f", "g", "h", "i", "j", "k", "l", "m", "n">>

\* u2 u1 u3 u2 ... um u(m-1) um: only u1 is unique, and behind it only u2, ...
NestB(m) ==
  [p \in 1..(2 * m - 1) |->
     <<Letters[IF p % 2 = 0 THEN p \div 2 ELSE Min((p + 1) \div 2 + 1, m)]>>]

InitNested ==
  \E m \in 1..NestLen : \E n \in 0..(2 * m - 1) :
    Constructed("Patience", [p \in 1..m |-> <<Letters[p]>>], SubSeq(NestB(m), 1, n), 1)

CallRecurseMatches ==
  /\ cls = "none"
  /\ Called("recurse_matches_py",
            recurse_matches_py(arg.a, arg.b, arg.alo, arg.blo, arg.ahi, arg.bhi,
                               arg.answer, arg.maxrecursion))

SpecRecurse ==
  /\ InitRecurse \/ InitNested
  /\ [][CallRecurseMatches \/ (cls = "Patience" /\ GetMatchingBlocks)]_vars

(***************************************************************************)
(* The junk-clearing substitution applied to one line.                     *)
(***************************************************************************)
InitClear ==
  /\ NoMatcher
  /\ fn = "none"
  /\ out = <<>>
  /\ arg \in SeqsUpTo({"a", "-", " ", "b"}, ClearLen)

CallClearJunk == Called("clear_junk", clear_junk(arg))

SpecClear == InitClear /\ [][CallClearJunk]_vars

(***************************************************************************)
(* Construction of a matcher, and the first calls on it.                   *)
(***************************************************************************)
InitConstruct ==
  /\ NoMatcher
  /\ fn = "none"
  /\ out = <<>>
  /\ arg \in [cls : {"Klondike", "Patience"},
              isjunk : {"None", "False", "lambda x: x == ' '"},
              a : SeqsUpTo(Lines, ConstructLen), b : SeqsUpTo(Lines, ConstructLen),
              extra_effort : {1}]

\* the constructor leaves the object as r.self and its outcome in out
Constructs(r) ==
  /\ cls' = r.self.cls
  /\ a' = r.self.a
  /\ b' = r.self.b
  /\ extra_effort' = r.self.extra_effort
  /\ a_ws' = r.self.a_ws
  /\ b_ws' = r.self.b_ws
  /\ matching_blocks' = r.self.matching_blocks
  /\ nearly_matching_blocks' = r.self.nearly_matching_blocks
  /\ opcodes' = r.self.opcodes
  /\ fn' = "__init__"
  /\ out' = r.ret
  /\ UNCHANGED <<arg, mbRet, opRet, oldtext_hold, chunks, target, written>>

Construct ==
  /\ fn = "none"
  /\ Constructs(__init__(Self, arg.cls, arg.isjunk, arg.a, arg.b, arg.extra_effort))

SpecConstruct == InitConstruct /\ [][Construct \/ (cls # "none" /\ GetMatchingBlocks)]_vars

(***************************************************************************)
(* Calls of _collapse_sequences on strictly increasing lists of pairs.     *)
(***************************************************************************)
\* the elements of a set of numbers in increasing order
RECURSIVE Sorted(_)
Sorted(S) ==
  IF S = {} THEN <<>>
  ELSE <<CHOOSE x \in S : \A y \in S : x <= y>>
       \o Sorted(S \ {CHOOSE x \in S : \A y \in S : x <= y})

InitCollapse ==
  /\ NoMatcher
  /\ fn = "none"
  /\ out = <<>>
  /\ \E I \in SUBSET (0..(CollapseLen - 1)), J \in SUBSET (0..(CollapseLen - 1)) :
       /\ Cardinality(I) = Cardinality(J)
       /\ arg = [n \in 1..Cardinality(I) |-> <<Sorted(I)[n], Sorted(J)[n]>>]

CallCollapse == Called("_collapse_sequences", _collapse_sequences(arg))

SpecCollapse == InitCollapse /\ [][CallCollapse]_vars

(***************************************************************************)
(* Calls of DiffWriter.parse_changed_line on a '-' line and a '+' line     *)
(* made of up to ChangedLen pieces.                                        *)
(***************************************************************************)
Pieces == {<<"a", "b", "c", "d", "e">>, <<"y", "z">>, <<" ">>}

DiffLine(mark, ps) == (<<mark>> \o Join(<<>>, ps)) \o <<"\n">>

InitChanged ==
  /\ NoMatcher
  /\ fn = "none"
  /\ out = <<>>
  /\ \E ps \in SeqsUpTo(Pieces, ChangedLen), qs \in SeqsUpTo(Pieces, ChangedLen) :
       arg = <<DiffLine("-", ps), DiffLine("+", qs)>>

CallParseChangedLine ==
  Called("parse_changed_line", parse_changed_line(arg[1], arg[2]))

SpecChanged == InitChanged /\ [][CallParseChangedLine]_vars

(***************************************************************************)
(* A PatienceSequenceMatcher_py whose inputs are replaced between calls of *)
(* get_opcodes.                                                            *)
(***************************************************************************)
InitSeqs ==
  \E xa \in SeqsUpTo({LX, LY}, SeqsLen), xb \in SeqsUpTo({LX, LY}, SeqsLen) :
    Constructed("Patience", xa, xb, 1)

\* the call leaves the matcher as self
Replaced(self) ==
  /\ a' = self.a
  /\ b' = self.b
  /\ matching_blocks' = self.matching_blocks
  /\ nearly_matching_blocks' = self.nearly_matching_blocks
  /\ opcodes' = self.opcodes
  /\ UNCHANGED <<cls, extra_effort, a_ws, b_ws, mbRet, opRet, fn, arg, out>>
  /\ UNCHANGED <<oldtext_hold, chunks, target, written>>

SetSeq1 == \E xa \in SeqsUpTo({LX, LY}, SeqsLen) : Replaced(set_seq1(Self, xa))

SetSeq2 == \E xb \in SeqsUpTo({LX, LY}, SeqsLen) : Replaced(set_seq2(Self, xb))

SetSeqs ==
  \E xa \in SeqsUpTo({LX, LY}, SeqsLen), xb \in SeqsUpTo({LX, LY}, SeqsLen) :
    Replaced(set_seqs(Self, xa, xb))

SpecSeqs == InitSeqs /\ [][GetOpcodes \/ SetSeq1 \/ SetSeq2 \/ SetSeqs]_vars

(***************************************************************************)
(* A DiffWriter with colour enabled under up to WriteLen calls of write()  *)
(* and calls of flush(); fn is the method called last.                     *)
(***************************************************************************)
Texts ==
  {<<"-", "a", "\n">>, <<"+", "a", "\n">>, <<"a", "\n">>, <<"-", "a">>, <<"b">>,
   <<"\n">>, <<"-", "-", "-", "\n">>}

InitWriter == NoMatcher /\ NoFunction

Write ==
  \E text \in Texts :
    /\ Len(written) < WriteLen
    /\ oldtext_hold' = write([oldtext_hold |-> oldtext_hold, chunks |-> chunks,
                              target |-> target], text).oldtext_hold
    /\ chunks' = write([oldtext_hold |-> oldtext_hold, chunks |-> chunks,
                        target |-> target], text).chunks
    /\ target' = write([oldtext_hold |-> oldtext_hold, chunks |-> chunks,
                        target |-> target], text).target
    /\ written' = Append(written, text)
    /\ fn' = "write"
    /\ UNCHANGED <<cls, a, b, extra_effort, a_ws, b_ws, matching_blocks,
                   nearly_matching_blocks, opcodes, mbRet, opRet, arg, out>>

\* flush(): self.target.flush()
Flush ==
  /\ fn' = "flush"
  /\ UNCHANGED <<cls, a, b, extra_effort, a_ws, b_ws, matching_blocks,
                 nearly_matching_blocks, opcodes, mbRet, opRet, arg, out,
                 oldtext_hold, chunks, target, written>>

SpecWriter == InitWriter /\ [][Write \/ Flush]_vars

(***************************************************************************)
(* Properties of the lists the calls return.                               *)
(***************************************************************************)
\* the opcodes tile [0, m] x [0, n]: from (0, 0), edge to edge, to (m, n)
Covers(ops, m, n) ==
  /\ ops # <<>> => ops[1][2] = 0 /\ ops[1][4] = 0
  /\ \A k \in 2..Len(ops) : ops[k][2] = ops[k - 1][3] /\ ops[k][4] = ops[k - 1][5]
  /\ IF ops = <<>> THEN m = 0 /\ n = 0
     ELSE ops[Len(ops)][3] = m /\ ops[Len(ops)][5] = n

\* consecutive blocks (i, j, n), (i', j', n') have i + n <= i' and j + n <= j'
Monotone(blocks) ==
  \A k \in 1..(Len(blocks) - 1) :
    /\ blocks[k][1] + blocks[k][3] <= blocks[k + 1][1]
    /\ blocks[k][2] + blocks[k][3] <= blocks[k + 1][2]

\* the last block is (m, n, 0) and no other block has size 0
SentinelOnly(blocks, m, n) ==
  /\ blocks # <<>>
  /\ blocks[Len(blocks)] = <<m, n, 0>>
  /\ \A k \in 1..(Len(blocks) - 1) : blocks[k][3] # 0

\* every block (i, j, n) lies in the inputs and has xa[i+k] = xb[j+k], k < n
RawEqual(blocks, xa, xb) ==
  \A k \in DOMAIN blocks :
    /\ blocks[k][1] >= 0 /\ blocks[k][1] + blocks[k][3] <= Len(xa)
    /\ blocks[k][2] >= 0 /\ blocks[k][2] + blocks[k][3] <= Len(xb)
    /\ \A d \in 0..(blocks[k][3] - 1) :
         xa[blocks[k][1] + d + 1] = xb[blocks[k][2] + d + 1]

\* the opcode t = (tag, i1, i2, j1, j2) meets the constraints of its tag
WellFormed(t) ==
  /\ t[2] <= t[3]
  /\ t[4] <= t[5]
  /\ t[1] = "delete" => t[4] = t[5]
  /\ t[1] = "insert" => t[2] = t[3]
  /\ t[1] = "equal" => t[3] - t[2] = t[5] - t[4]

\* xb is xa up to junk: the same length and the same junk-cleared lines
SameCleared(xa, xb) ==
  /\ Len(xa) = Len(xb)
  /\ \A k \in DOMAIN xa : clear_junk(xa[k]) = clear_junk(xb[k])

\* C1: every list get_opcodes returns, for either matcher, covers both
\* inputs exactly once: it starts at (0, 0), each opcode starts where the
\* previous one ends, and the last ends at (len(a), len(b)).
OpcodesCover ==
  opRet.err = "none" => Covers(opRet.val, Len(a), Len(b))

\* C2: no call of get_matching_blocks or get_opcodes, of either matcher,
\* raises: each call that was made returned a list.
NeverRaises ==
  /\ mbRet.err \in {"nocall", "none"}
  /\ opRet.err \in {"nocall", "none"}

\* C3: when every line of b has the junk-cleared form of the line of a at
\* the same index, the klondike get_matching_blocks returns one block over
\* both inputs and the sentinel, [(0, 0, m), (m, m, 0)].
NormalizationInvariance ==
  (cls = "Klondike" /\ mbRet # NoCall /\ Len(a) >= 1 /\ SameCleared(a, b))
    => mbRet = Ok(<<(<<0, 0, Len(a)>>), <<Len(a), Len(a), 0>>>>)

\* C4: when a = b with at least one line, get_matching_blocks of either
\* matcher returns [(0, 0, m), (m, m, 0)] and get_opcodes returns
\* [(equal, 0, m, 0, m)].
Identity ==
  (a = b /\ Len(a) >= 1)
    => /\ mbRet # NoCall => mbRet = Ok(<<(<<0, 0, Len(a)>>), <<Len(a), Len(a), 0>>>>)
       /\ opRet # NoCall => opRet = Ok(<<(<<"equal", 0, Len(a), 0, Len(a)>>)>>)

\* C5: on empty inputs get_opcodes of either matcher returns [] (or one
\* equal of zero length) when both are empty, the one opcode
\* (insert, 0, 0, 0, n) when only a is empty and the one opcode
\* (delete, 0, m, 0, 0) when only b is empty.
EmptyInputs ==
  opRet # NoCall =>
    /\ (a = <<>> /\ b = <<>>)
         => opRet \in {Ok(<<>>), Ok(<<(<<"equal", 0, 0, 0, 0>>)>>)}
    /\ (a = <<>> /\ b # <<>>) => opRet = Ok(<<(<<"insert", 0, 0, 0, Len(b)>>)>>)
    /\ (a # <<>> /\ b = <<>>) => opRet = Ok(<<(<<"delete", 0, Len(a), 0, 0>>)>>)

\* C6: every opcode tagged equal in a list get_opcodes returns has
\* a[i1:i2] == b[j1:j2] on the raw lines.
EqualOpcodesHonest ==
  opRet.err = "none" =>
    \A k \in DOMAIN opRet.val :
      opRet.val[k][1] = "equal"
        => PySlice(a, opRet.val[k][2], opRet.val[k][3])
             = PySlice(b, opRet.val[k][4], opRet.val[k][5])

\* C7: every opcode in a list get_opcodes returns has i1 <= i2 and
\* j1 <= j2, j1 = j2 when it is a delete, i1 = i2 when it is an insert and
\* i2 - i1 = j2 - j1 when it is an equal.
TagWellFormed ==
  opRet.err = "none" => \A k \in DOMAIN opRet.val : WellFormed(opRet.val[k])

\* C8: every list the klondike get_matching_blocks returns is monotone in
\* both coordinates and ends with the sentinel (len(a), len(b), 0), the only
\* block of size 0.
KlondikeBlocksMonotone ==
  (cls = "Klondike" /\ mbRet.err = "none")
    => Monotone(mbRet.val) /\ SentinelOnly(mbRet.val, Len(a), Len(b))

\* C9: every call of the patience get_matching_blocks returns a list that
\* is monotone in both coordinates, ends with the sentinel
\* (len(a), len(b), 0) as its only block of size 0, and whose blocks
\* (i, j, n) have a[i+k] == b[j+k] on the raw lines for all k < n.
PatienceBlocksSound ==
  (cls = "Patience" /\ mbRet # NoCall)
    => /\ mbRet.err = "none"
       /\ Monotone(mbRet.val)
       /\ SentinelOnly(mbRet.val, Len(a), Len(b))
       /\ RawEqual(mbRet.val, a, b)

\* the patience matcher returned two blocks and the sentinel on inputs
\* holding a pair of lines equal once stripped but not raw
PatienceBlocksReached ==
  /\ cls = "Patience"
  /\ mbRet.err = "none"
  /\ Len(mbRet.val) = 3
  /\ \E i \in DOMAIN a, j \in DOMAIN b : strip(a[i]) = strip(b[j]) /\ a[i] # b[j]

\* C10: on one matcher, a call of get_matching_blocks has the outcome of
\* every earlier call of it, and likewise for get_opcodes, whatever the
\* order of the calls.
Idempotent ==
  [][/\ mbRet # NoCall => mbRet' = mbRet
     /\ opRet # NoCall => opRet' = opRet]_vars

\* x occurs exactly once in s
UniqueIn(x, s) == Cardinality({i \in DOMAIN s : s[i] = x}) = 1

\* the pairs (ai, bi) of equal elements that occur once in xa and once in xb
UniquePairs(xa, xb) ==
  {p \in (0..(Len(xa) - 1)) \X (0..(Len(xb) - 1)) :
     /\ xa[p[1] + 1] = xb[p[2] + 1]
     /\ UniqueIn(xa[p[1] + 1], xa)
     /\ UniqueIn(xb[p[2] + 1], xb)}

\* the pairs of the list are strictly increasing in both coordinates
Increasing(pairs) ==
  \A k \in 1..(Len(pairs) - 1) :
    pairs[k][1] < pairs[k + 1][1] /\ pairs[k][2] < pairs[k + 1][2]

\* C11: the pairs unique_lcs_py(a, b) returns are strictly increasing in
\* both coordinates, each pair joins equal elements that occur exactly once
\* in a and exactly once in b, and the result is [] when no element occurs
\* exactly once on both sides.
UniqueLcsSound ==
  fn = "unique_lcs_py" =>
    /\ Increasing(out)
    /\ \A k \in DOMAIN out : <<out[k][1], out[k][2]>> \in UniquePairs(arg[1], arg[2])
    /\ UniquePairs(arg[1], arg[2]) = {} => out = <<>>

\* unique_lcs_py returned two pairs or more on arguments that also share an
\* element repeated on one side
UniqueLcsReached ==
  /\ fn = "unique_lcs_py"
  /\ Len(out) >= 2
  /\ \E i \in DOMAIN arg[1], j \in DOMAIN arg[2] :
       arg[1][i] = arg[2][j] /\ ~UniqueIn(arg[1][i], arg[1])

\* the set of pairs is a chain: any two of them are ordered alike in both
\* coordinates
Chain(S) ==
  \A p \in S, q \in S :
    p = q \/ (p[1] < q[1] /\ p[2] < q[2]) \/ (q[1] < p[1] /\ q[2] < p[2])

\* the pile-selection paths the loop takes from position bpos on
RECURSIVE PathsTaken(_, _, _)
PathsTaken(btoa, bpos, st) ==
  IF bpos >= Len(btoa) THEN {}
  ELSE IF btoa[bpos + 1] = NoPos THEN PathsTaken(btoa, bpos + 1, st)
  ELSE {IF st.stacks # <<>> /\ st.stacks[Len(st.stacks)] < btoa[bpos + 1]
        THEN "append"
        ELSE IF st.stacks # <<>> /\ st.stacks[st.k + 1] < btoa[bpos + 1]
                /\ (st.k = Len(st.stacks) - 1 \/ st.stacks[st.k + 2] > btoa[bpos + 1])
        THEN "next"
        ELSE "bisect"}
       \cup PathsTaken(btoa, bpos + 1,
              PatienceStep(st, bpos, btoa[bpos + 1],
                           PileFor(st.stacks, st.k, btoa[bpos + 1])))

\* C12: no chain of pairs of elements occurring exactly once in a and
\* exactly once in b is longer than the list unique_lcs_py(a, b) returns.
UniqueLcsMaximal ==
  fn = "unique_lcs_py" =>
    \A S \in SUBSET UniquePairs(arg[1], arg[2]) :
      Chain(S) => Cardinality(S) <= Len(out)

\* unique_lcs_py took all three pile-selection paths in one call and
\* returned fewer pairs than the arguments share
UniqueLcsPathsReached ==
  /\ fn = "unique_lcs_py"
  /\ Len(out) < Cardinality(UniquePairs(arg[1], arg[2]))
  /\ PathsTaken(Btoa(arg[1], arg[2]), 0,
                [stacks |-> <<>>, lasts |-> <<>>,
                 backpointers |-> [i \in 1..Len(arg[2]) |-> NoPos], k |-> 0])
       = {"append", "next", "bisect"}

\* the blocks of a sequence of m elements against itself without element k
RemovalBlocks(m, k) ==
  ((IF k > 0 THEN <<(<<0, 0, k>>)>> ELSE <<>>)
   \o (IF m - k - 1 > 0 THEN <<(<<k + 1, k, m - k - 1>>)>> ELSE <<>>))
  \o <<(<<m, m - 1, 0>>)>>

\* b is a, a sequence of distinct elements, without its element k
IsRemoval(k) ==
  /\ Distinct(a)
  /\ k \in 0..(Len(a) - 1)
  /\ b = RemoveAt(a, k)

\* C13: for a of m distinct elements and b equal to a with the element at k
\* removed, the klondike get_matching_blocks returns
\* [(0, 0, k), (k+1, k, m-k-1), (m, m-1, 0)], each of the first two only
\* when not empty.
KlondikeRemoval ==
  \A k \in 0..(Len(a) - 1) :
    (cls = "Klondike" /\ mbRet # NoCall /\ IsRemoval(k))
      => mbRet = Ok(RemovalBlocks(Len(a), k))

DoctestHunkHeader == <<"@", "@", " ", "-", "1", ",", "4", " ", "+", "1", ",",
  "4", " ", "@", "@">>

DoctestLines ==
  <<(((<<"-", "-", "-", " ">> \o Doctest.Original) \o <<"\t">>) \o Doctest.OriginalDate),
    (((<<"+", "+", "+", " ">> \o Doctest.Current) \o <<"\t">>) \o Doctest.CurrentDate),
    DoctestHunkHeader,
    <<"+">> \o Doctest.zero, <<" ">> \o Doctest.one, <<"-">> \o Doctest.two,
    <<"-">> \o Doctest.three, <<"+">> \o Doctest.tree, <<" ">> \o Doctest.four>>

IsDoctestCall ==
  /\ fn \in {"patiencediff.unified_diff", "klonpatiencediff.unified_diff"}
  /\ arg = DoctestCall(<<Doctest.one, Doctest.two, Doctest.three, Doctest.four>>,
                       <<Doctest.zero, Doctest.one, Doctest.tree, Doctest.four>>, 3)

\* C15: unified_diff on 'one two three four' and 'zero one tree four' with the
\* doctest's file names, dates and lineterm='' yields exactly the nine lines
\* of the doctest, the hunk header being '@@ -1,4 +1,4 @@' with nothing after
\* the closing '@@'.
DoctestOutput == IsDoctestCall => (Len(out) = 9 /\ out = DoctestLines)

\* the pairs appended by the call of recurse_matches_py
Appended == SubSeq(out, Len(arg.answer) + 1, Len(out))

IsRecurseCall == fn = "recurse_matches_py"

\* C16: recurse_matches_py appends to answer only pairs (ai, bi) inside the
\* region with a[ai] == b[bi], and the appended pairs are strictly increasing
\* in both coordinates in the order they are appended.
RecurseSound ==
  IsRecurseCall =>
    /\ Len(out) >= Len(arg.answer)
    /\ SubSeq(out, 1, Len(arg.answer)) = arg.answer
    /\ \A k \in DOMAIN Appended :
         /\ arg.alo <= Appended[k][1] /\ Appended[k][1] < arg.ahi
         /\ arg.blo <= Appended[k][2] /\ Appended[k][2] < arg.bhi
         /\ arg.a[Appended[k][1] + 1] = arg.b[Appended[k][2] + 1]
    /\ Increasing(Appended)

\* no anchors in the region, unequal first elements, equal last elements
EndRunTaken ==
  /\ unique_lcs_py(PySlice(arg.a, arg.alo, arg.ahi), PySlice(arg.b, arg.blo, arg.bhi)) = <<>>
  /\ arg.alo < arg.ahi /\ arg.blo < arg.bhi
  /\ arg.a[arg.alo + 1] # arg.b[arg.blo + 1]
  /\ arg.a[arg.ahi] = arg.b[arg.bhi]

\* a call with no anchors in its region and unequal first elements appended
\* the two pairs of the equal run at the region's end to a list not empty
RecurseReached ==
  /\ IsRecurseCall
  /\ arg.answer # <<>>
  /\ arg.maxrecursion = MaxRecursion
  /\ Len(Appended) = 2
  /\ EndRunTaken

\* the pairs the call's own level appends: the anchors, or else the equal
\* run at the start of the region, or else the one at its end
OwnLevel(lcs) ==
  IF arg.alo = arg.ahi \/ arg.blo = arg.bhi THEN <<>>
  ELSE IF lcs # <<>>
  THEN [k \in DOMAIN lcs |-> <<lcs[k][1] + arg.alo, lcs[k][2] + arg.blo>>]
  ELSE IF arg.a[arg.alo + 1] = arg.b[arg.blo + 1]
  THEN [k \in 1..EqualFromStart(arg.a, arg.b, arg.alo, arg.blo, arg.ahi, arg.bhi) |->
          <<arg.alo + k - 1, arg.blo + k - 1>>]
  ELSE IF arg.a[arg.ahi] = arg.b[arg.bhi]
  THEN [k \in 1..(1 + EqualFromEnd(arg.a, arg.b, arg.alo, arg.blo,
                                   arg.ahi - 1, arg.bhi - 1)) |->
          <<arg.ahi - 2 - EqualFromEnd(arg.a, arg.b, arg.alo, arg.blo,
                                       arg.ahi - 1, arg.bhi - 1) + k,
            arg.bhi - 2 - EqualFromEnd(arg.a, arg.b, arg.alo, arg.blo,
                                       arg.ahi - 1, arg.bhi - 1) + k>>]
  ELSE <<>>

\* C17: recurse_matches_py returns for every maxrecursion >= 0, appending no
\* more pairs than the region holds; a call entered with maxrecursion < 0
\* returns answer as it was; the calls it makes get maxrecursion - 1, so that
\* with maxrecursion = 0 only the call's own level appends; and the patience
\* get_matching_blocks returns a monotone, sentinel-terminated list without
\* raising also when the bound of 10 is exhausted.
DepthBounded ==
  /\ IsRecurseCall =>
       /\ Len(Appended) <= Min(arg.ahi - arg.alo, arg.bhi - arg.blo)
       /\ arg.maxrecursion < 0 => out = arg.answer
       /\ arg.maxrecursion = 0 =>
            Appended = OwnLevel(unique_lcs_py(PySlice(arg.a, arg.alo, arg.ahi),
                                              PySlice(arg.b, arg.blo, arg.bhi)))
  /\ (cls = "Patience" /\ mbRet # NoCall) =>
       /\ mbRet.err = "none"
       /\ Monotone(mbRet.val)
       /\ SentinelOnly(mbRet.val, Len(a), Len(b))

\* the patience matcher returned on an input where the bound of 10 cut the
\* recursion short: one level more would have found another pair
DepthExhausted ==
  /\ cls = "Patience"
  /\ mbRet # NoCall
  /\ mbRet.err = "none"
  /\ Len(mbRet.val) > 1
  /\ recurse_matches_py(a, b, 0, 0, Len(a), Len(b), <<>>, MaxRecursion)
       # recurse_matches_py(a, b, 0, 0, Len(a), Len(b), <<>>, MaxRecursion + 1)

\* the line from position p on with its whitespace deleted and one copy kept
\* of every maximal run of three or more copies of another character
RECURSIVE OneCopyFrom(_, _)
OneCopyFrom(s, p) ==
  IF p > Len(s) THEN <<>>
  ELSE IF s[p] \in Whitespace THEN OneCopyFrom(s, p + 1)
  ELSE IF RunLen(s, p) >= 3 THEN <<s[p]>> \o OneCopyFrom(s, p + RunLen(s, p))
  ELSE SubSeq(s, p, p + RunLen(s, p) - 1) \o OneCopyFrom(s, p + RunLen(s, p))

\* C18: the junk-clearing normalisation of a line deletes every whitespace
\* character, keeps exactly one copy of every maximal run of three or more
\* identical non-whitespace characters ('a---b' and 'a-----b' become 'a-b'),
\* and keeps every other character in order.
ClearJunkOneCopy == fn = "clear_junk" => out = OneCopyFrom(arg, 1)

\* C19: constructing either matcher with an isjunk other than None raises
\* NotImplementedError before any input is stored or any block list is
\* computed; with isjunk = None the construction succeeds and stores a and b.
IsjunkRejected ==
  fn = "__init__" =>
    IF arg.isjunk # "None"
    THEN /\ out = Raise("NotImplementedError")
         /\ NoMatcher
    ELSE /\ out.err = "none"
         /\ cls = arg.cls
         /\ a = arg.a
         /\ b = arg.b

\* a construction with an isjunk and two inputs that are not empty raised
IsjunkRaised ==
  /\ fn = "__init__"
  /\ arg.isjunk = "False"
  /\ arg.a # <<>>
  /\ arg.b # <<>>
  /\ out.err = "NotImplementedError"

\* the block (i, j, n) is a MatchBlock of the junk-cleared lines xa, xb
IsMatchBlock(blk, xa, xb) ==
  /\ blk[3] >= 1
  /\ 0 <= blk[1] /\ blk[1] + blk[3] <= Len(xa)
  /\ 0 <= blk[2] /\ blk[2] + blk[3] <= Len(xb)
  /\ \A k \in 0..(blk[3] - 1) : xa[blk[1] + k + 1] = xb[blk[2] + k + 1]

\* C20: every block but the last of the list the klondike get_matching_blocks
\* returns has n >= 1, lies inside A and B with no negative start index, and
\* joins lines whose junk-cleared forms are equal.
KlondikeBlocksWellFormed ==
  (cls = "Klondike" /\ mbRet # NoCall /\ mbRet.err = "none")
    => \A k \in 1..(Len(mbRet.val) - 1) :
         IsMatchBlock(mbRet.val[k], ClearAll(a), ClearAll(b))

\* the anchors of the klondike growth on junk-cleared lines xa, xb and the
\* block list as the growth loop leaves it (matches), then with the suffix
\* block and the sentinel appended, before the reconciliation (built); pre
\* and suf are the outcomes of the prefix and suffix loops
GrowthOf(xa, xb, pre, suf) ==
  IF pre.err # "none" \/ suf.err # "none" 
  THEN [err |-> "raised", anchors |-> <<>>, matches |-> <<>>, built |-> <<>>]
  ELSE LET hi == IF suf.val + 1 = 0 THEN Len(xa) ELSE suf.val + 1
           hj == IF suf.val + 1 = 0 THEN Len(xb) ELSE suf.val + 1
           anchors == ShiftPairs(unique_lcs_py(PySlice(xa, pre.val, hi),
                                               PySlice(xb, pre.val, hj)), pre.val)
           grown == GrowLoop(xa, xb, anchors, 1,
                      [matches |-> IF pre.val # 0 THEN <<(<<0, 0, pre.val>>)>> ELSE <<>>,
                       last_a |-> pre.val, last_b |-> pre.val])
       IN IF grown.err # "none"
          THEN [err |-> "raised", anchors |-> anchors, matches |-> <<>>, built |-> <<>>]
          ELSE [err |-> "none", anchors |-> anchors, matches |-> grown.val.matches,
                built |-> (grown.val.matches
                           \o (IF suf.val + 1 = 0 THEN <<>>
                               ELSE <<(<<Len(xa) + suf.val + 1, Len(xb) + suf.val + 1,
                                         -(suf.val + 1)>>)>>))
                          \o <<(<<Len(xa), Len(xb), 0>>)>>]

KlondikeGrowth ==
  GrowthOf(ClearAll(a), ClearAll(b), PrefixLoop(ClearAll(a), ClearAll(b), 0),
           SuffixLoop(ClearAll(a), ClearAll(b), -1))

\* the pair lies inside the block
InsideBlock(pair, blk) ==
  /\ blk[1] <= pair[1] /\ pair[1] < blk[1] + blk[3]
  /\ blk[2] <= pair[2] /\ pair[2] < blk[2] + blk[3]

\* C21: in the klondike anchor growth every anchor pair of the unique LCS
\* ends up inside some block of the list built before reconciliation: an
\* anchor is skipped only when its line of A is already inside a block.
AnchorsKept ==
  (cls = "Klondike" /\ mbRet # NoCall /\ KlondikeGrowth.err = "none")
    => \A n \in DOMAIN KlondikeGrowth.anchors :
         \E k \in DOMAIN KlondikeGrowth.matches :
           InsideBlock(KlondikeGrowth.anchors[n], KlondikeGrowth.matches[k])

\* the overshoot of block n of the list over block n + 1
Overshoot(blocks, n) ==
  Max(blocks[n][1] + blocks[n][3] - blocks[n + 1][1],
      blocks[n][2] + blocks[n][3] - blocks[n + 1][2])

\* the smallest k in 0..d-1 for which line base + d - k - 1 of xa is empty,
\* and 0 when there is none
BlankCut(xa, base, d) ==
  LET ks == {k \in 0..(d - 1) : /\ base + d - k - 1 \in 0..(Len(xa) - 1)
                                /\ xa[base + d - k] = <<>>}
  IN IF ks = {} THEN 0 ELSE CHOOSE k \in ks : \A l \in ks : k <= l

\* C22: where a block of the list built by the klondike matcher overshoots
\* the next one by d > 0, the reconciliation moves the block's end back by k
\* and the next block's start forward by d - k, k being the smallest value
\* that puts the cut just after an empty junk-cleared line of A and 0 when
\* there is none; afterwards the two blocks do not overlap in either
\* coordinate and both have length >= 1.
ReconcileCuts ==
  (cls = "Klondike" /\ mbRet # NoCall /\ mbRet.err = "none" /\ KlondikeGrowth.err = "none")
    => \A n \in 1..(Len(KlondikeGrowth.built) - 2) :
         Overshoot(KlondikeGrowth.built, n) > 0 =>
           LET d == Overshoot(KlondikeGrowth.built, n)
               k == BlankCut(ClearAll(a), KlondikeGrowth.built[n + 1][1], d)
           IN /\ mbRet.val[n][1] + mbRet.val[n][3]
                   = KlondikeGrowth.built[n][1] + KlondikeGrowth.built[n][3] - k
              /\ mbRet.val[n + 1][1] = KlondikeGrowth.built[n + 1][1] + (d - k)
              /\ mbRet.val[n + 1][2] = KlondikeGrowth.built[n + 1][2] + (d - k)
              /\ mbRet.val[n][1] + mbRet.val[n][3] <= mbRet.val[n + 1][1]
              /\ mbRet.val[n][2] + mbRet.val[n][3] <= mbRet.val[n + 1][2]
              /\ mbRet.val[n][3] >= 1
              /\ mbRet.val[n + 1][3] >= 1

\* the list of blocks get_opcodes() works from
OpcodeBlocks ==
  IF cls = "Klondike" THEN matching_blocks.val ELSE nearly_matching_blocks.val

\* the raw lines at offset n of the block differ
Differ(blk, n) == PyGet(a, blk[1] + n) # PyGet(b, blk[2] + n)

\* the opcodes the partition of the block consists of: a singleton replace
\* for every offset whose raw lines differ, an equal for every maximal run
\* of offsets whose raw lines are equal
PartitionOf(blk) ==
  {<<"replace", blk[1] + n, blk[1] + n + 1, blk[2] + n, blk[2] + n + 1>> :
     n \in {m \in 0..(blk[3] - 1) : Differ(blk, m)}}
  \cup
  {<<"equal", blk[1] + r[1], blk[1] + r[2], blk[2] + r[1], blk[2] + r[2]>> :
     r \in {q \in (0..blk[3]) \X (0..blk[3]) :
              /\ q[1] < q[2]
              /\ \A m \in q[1]..(q[2] - 1) : ~Differ(blk, m)
              /\ q[1] = 0 \/ Differ(blk, q[1] - 1)
              /\ q[2] = blk[3] \/ Differ(blk, q[2])}}

\* positions p+1 .. p+n of the opcode list hold exactly the opcodes of the
\* set, none of length zero, contiguous from the block's start to its end
PartitionAt(ops, p, blk, part) ==
  /\ p + Cardinality(part) <= Len(ops)
  /\ {ops[p + k] : k \in 1..Cardinality(part)} = part
  /\ ops[p + 1][2] = blk[1] /\ ops[p + 1][4] = blk[2]
  /\ ops[p + Cardinality(part)][3] = blk[1] + blk[3]
  /\ ops[p + Cardinality(part)][5] = blk[2] + blk[3]
  /\ \A k \in 1..Cardinality(part) :
       ops[p + k][2] < ops[p + k][3] /\ ops[p + k][4] < ops[p + k][5]
  /\ \A k \in 1..(Cardinality(part) - 1) :
       ops[p + k][3] = ops[p + k + 1][2] /\ ops[p + k][5] = ops[p + k + 1][4]

\* C23: within each matching block get_opcodes() emits exactly one singleton
\* replace for every offset whose raw lines differ and one equal for every
\* maximal run of offsets whose raw lines are equal, no opcode of length
\* zero, in increasing order and contiguous from (ai, bj) to (ai + size,
\* bj + size).
BlockPartition ==
  (opRet # NoCall /\ opRet.err = "none")
    => \A k \in DOMAIN OpcodeBlocks :
         OpcodeBlocks[k][3] > 0 =>
           \E p \in 0..(Len(opRet.val) - 1) :
             PartitionAt(opRet.val, p, OpcodeBlocks[k], PartitionOf(OpcodeBlocks[k]))

\* the position in sep.join(ws) at which line k of ws starts, sep having two
\* characters
RECURSIVE LineStart(_, _)
LineStart(ws, k) == IF k = 1 THEN 0 ELSE LineStart(ws, k - 1) + Len(ws[k - 1]) + 2

\* the characters pos .. pos + size - 1 of the joined lines lie in one line
InOneLine(ws, pos, size) ==
  \E k \in DOMAIN ws :
    LineStart(ws, k) <= pos /\ pos + size <= LineStart(ws, k) + Len(ws[k])

\* every character match that is acted on lies inside one line on each side
MatchesInLines(xs, ys, ms) ==
  \A n \in DOMAIN ms :
    ms[n][3] >= MinMatch => InOneLine(xs, ms[n][1], ms[n][3]) /\ InOneLine(ys, ms[n][2], ms[n][3])

\* the region between block n - 1 (or the start) and block n of the list
GapBefore(blocks, n) ==
  [i |-> IF n = 1 THEN 0 ELSE blocks[n - 1][1] + blocks[n - 1][3],
   j |-> IF n = 1 THEN 0 ELSE blocks[n - 1][2] + blocks[n - 1][3],
   ai |-> blocks[n][1], bj |-> blocks[n][2]]

\* C24: in the klondike extra-effort path every character match of length
\* >= 5 that makes a singleton opcode lies inside one junk-cleared line of A
\* and one of B: no counted match includes a separator character or
\* characters of a neighbouring line.
SeparatorsIsolate ==
  (cls = "Klondike" /\ extra_effort # 0 /\ opRet # NoCall /\ opRet.err = "none"
   /\ matching_blocks.set)
    => \A n \in DOMAIN matching_blocks.val :
         LET g == GapBefore(matching_blocks.val, n)
         IN (g.i < g.ai /\ g.j < g.bj /\ (g.i < g.ai - 1 \/ g.j < g.bj - 1))
              => MatchesInLines(
                   PySlice(a_ws.val, g.i, g.ai), PySlice(b_ws.val, g.j, g.bj),
                   difflib_get_matching_blocks(
                     Join(<<"a", "\n">>, PySlice(a_ws.val, g.i, g.ai)),
                     Join(<<"b", "\n">>, PySlice(b_ws.val, g.j, g.bj))))

\* the pairs (i, j), (i+1, j+1), ..., (i+n-1, j+n-1) of every block, in order
RECURSIVE Expanded(_)
Expanded(blocks) ==
  IF blocks = <<>> THEN <<>>
  ELSE [k \in 1..Head(blocks)[3] |-> <<Head(blocks)[1] + k - 1, Head(blocks)[2] + k - 1>>]
       \o Expanded(Tail(blocks))

\* C25: _collapse_sequences folds a strictly increasing list of pairs into
\* maximal diagonal runs: the blocks expand to exactly the input list, every
\* block has n >= 1, no block continues the diagonal of the one before it,
\* and the empty list gives the empty list.
CollapseExact ==
  fn = "_collapse_sequences" =>
    /\ Expanded(out) = arg
    /\ \A k \in DOMAIN out : out[k][3] >= 1
    /\ \A k \in 1..(Len(out) - 1) :
         ~(out[k + 1][1] = out[k][1] + out[k][3] /\ out[k + 1][2] = out[k][2] + out[k][3])
    /\ arg = <<>> => out = <<>>

\* a list of four pairs was folded into a run of three and a single pair
CollapseReached ==
  /\ fn = "_collapse_sequences"
  /\ Len(arg) = 4
  /\ Len(out) = 2
  /\ out[1][3] = 3

\* a rendered string with the colour codes removed
RECURSIVE Unstyled(_)
Unstyled(r) == IF r = <<>> THEN <<>> ELSE Head(r).text \o Unstyled(Tail(r))

\* the colours of every character of a rendered string, in order
RECURSIVE StyleOfChars(_)
StyleOfChars(r) ==
  IF r = <<>> THEN <<>>
  ELSE [k \in 1..Len(Head(r).text) |-> <<Head(r).fg, Head(r).bg>>]
       \o StyleOfChars(Tail(r))

\* the blocks of the classical matcher between the two lines without markers
LineBlocks ==
  difflib_get_matching_blocks(PySlice(arg[1], 1, Len(arg[1])),
                              PySlice(arg[2], 1, Len(arg[2])))

\* character p of the line of the given side lies in a block of length >= 3
InLongBlock(blocks, side, p) ==
  \E k \in DOMAIN blocks :
    /\ blocks[k][3] >= 3
    /\ blocks[k][side] + 2 <= p
    /\ p < blocks[k][side] + 2 + blocks[k][3]

SameStyle(side) == IF side = 1 THEN colors.oldsame ELSE colors.newsame
ChangedStyle(side) == IF side = 1 THEN colors.oldtext ELSE colors.newtext

SubHighlighted ==
  \E side \in 1..2 : \E k \in DOMAIN out[side] :
    out[side][k].fg = SameStyle(side) /\ out[side][k].text # <<>>

\* character p of the '+' line and everything after it is outside the long
\* blocks, and only blanks and tabs stand between p and the line terminator
InBlankTail(blocks, p) ==
  /\ \A q \in p..Len(arg[2]) : ~InLongBlock(blocks, 2, q)
  /\ \A q \in p..(Len(arg[2]) - 1) : arg[2][q] \in {" ", "\t"}

\* the colours parse_changed_line gives character p of a highlighted line
StyleAt(blocks, side, p) ==
  IF InLongBlock(blocks, side, p) THEN <<SameStyle(side), "none">>
  ELSE IF side = 2 /\ p = Len(arg[2]) THEN <<"none", "none">>
  ELSE IF side = 2 /\ InBlankTail(blocks, p)
  THEN <<ChangedStyle(2), colors.trailingspace>>
  ELSE <<ChangedStyle(side), "none">>

AllStyled(blocks, styles) ==
  /\ SubHighlighted <=> LongestMatch(blocks) >= 5
  /\ LongestMatch(blocks) >= 5 =>
       \A side \in 1..2 :
         /\ Unstyled(out[side]) = arg[side]
         /\ \A p \in 1..Len(arg[side]) :
              styles[side][p][1] =
                IF InLongBlock(blocks, side, p) THEN SameStyle(side)
                ELSE ChangedStyle(side)

ExactlyStyled(blocks, styles) ==
  /\ SubHighlighted <=> LongestMatch(blocks) >= 5
  /\ LongestMatch(blocks) >= 5 =>
       \A side \in 1..2 :
         /\ Unstyled(out[side]) = arg[side]
         /\ \A p \in 1..Len(arg[side]) : styles[side][p] = StyleAt(blocks, side, p)

\* C26 as stated: parse_changed_line sub-highlights exactly when the longest
\* block between the lines without markers has length >= 5; then exactly the
\* blocks of length >= 3 are in the same-style, every other character is in
\* the changed-style, and the output without styling is the original line.
SubHighlightAllStyled ==
  fn = "parse_changed_line" =>
    AllStyled(LineBlocks, <<StyleOfChars(out[1]), StyleOfChars(out[2])>>)

\* C26: parse_changed_line sub-highlights exactly when the longest block
\* between the lines without markers has length >= 5; then the output without
\* styling is the original line, exactly the blocks of length >= 3 are in the
\* same-style and every other character is in the changed-style, except that
\* in the '+' line a line terminator outside those blocks is left unstyled and
\* the blanks just before it get the trailing-space background.
SubHighlightExact ==
  fn = "parse_changed_line" =>
    ExactlyStyled(LineBlocks, <<StyleOfChars(out[1]), StyleOfChars(out[2])>>)

HighlightCase(blocks) ==
  /\ LongestMatch(blocks) >= 5
  /\ Len(Retained(blocks)) = 3
  /\ Len(blocks) > 3
  /\ ~InLongBlock(blocks, 2, Len(arg[2]))

\* a pair was highlighted with two blocks kept, a shorter block dropped and
\* the terminator of the '+' line outside the kept blocks
SubHighlightReached == fn = "parse_changed_line" /\ HighlightCase(LineBlocks)

\* C27: once get_opcodes() has raised the coverage Exception, or
\* get_matching_blocks() the ValueError of the consistency check, every later
\* call of the same operation on the matcher raises as well; none returns the
\* list left in the cache.
ErrorsPersist ==
  [][/\ opRet.err = "Exception" => opRet'.err # "none"
     /\ mbRet.err = "ValueError" => mbRet'.err # "none"]_vars

\* the outcome of get_opcodes() on a newly constructed matcher of the class
\* on the inputs the matcher holds now
FreshOpcodes ==
  get_opcodes(__init__(Self, cls, "None", a', b', extra_effort).self).ret

\* C28: the first get_opcodes() after set_seqs, set_seq1 or set_seq2 has
\* replaced an input of a PatienceSequenceMatcher_py has the outcome that
\* get_opcodes() has on a newly constructed matcher on the new inputs.
NoStaleOpcodes ==
  [][(~opcodes.set /\ opcodes'.set) => opRet' = FreshOpcodes]_vars

\* C29: when flush() has been called after the calls of write(), the text
\* the target has received is, with the styling removed, the concatenation
\* of the texts written, in order; so a held '-' line has been emitted and a
\* line written in several fragments is emitted whole.
NoTextLost == fn = "flush" => Unstyled(target) = Join(<<>>, written)

\* the line pairs on the diagonals of the 'equal' opcodes of a list
EqualPairs(ops) ==
  UNION {{<<ops[k][2] + n, ops[k][4] + n>> : n \in 0..(ops[k][3] - ops[k][2] - 1)} :
           k \in {h \in DOMAIN ops : ops[h][1] = "equal"}}

\* the line pairs on the diagonals of the blocks of a list
BlockPairs(blocks) ==
  UNION {{<<blocks[k][1] + n, blocks[k][2] + n>> : n \in 0..(blocks[k][3] - 1)} :
           k \in DOMAIN blocks}

\* C30: on a PatienceSequenceMatcher_py the line pairs covered by the 'equal'
\* opcodes that get_opcodes() returns are the line pairs covered by the
\* blocks that get_matching_blocks() returns.
OpcodesFollowBlocks ==
  (cls = "Patience" /\ opRet.err = "none" /\ mbRet.err = "none")
    => EqualPairs(opRet.val) = BlockPairs(mbRet.val)

====
